---- MODULE Spec2Model ----
(***************************************************************************)
(* A model of the html core of quo: the trust-boundary string types        *)
(* (trust.rs), the typography rules (rules.rs), the attribute table        *)
(* (attributes.rs), the IR tree (node.rs, elements.rs) and the HTML        *)
(* renderer (renderer.rs).                                                 *)
(*                                                                         *)
(* A text is a sequence of characters; a character is a one-character      *)
(* string, or "U+xxxx" for a character outside ASCII.  A Rust panic        *)
(* (todo!(), unreachable!()) is a result whose ok field is FALSE.          *)
(***************************************************************************)
EXTENDS Integers, Sequences, FiniteSets, TLC

\* ------------------------------------------------------------------ bounds

\* Longest input text drawn character by character from InputChars.
MaxLen == 3
\* Longest stage list of a rule set.
MaxStages == 1
\* Most attributes, text and raw children and nodes in the tree under
\* construction.
MaxWeight == 4
\* Most renderings of one tree.
MaxRenders == 2

VARIABLES
    RULES,      \* rules.rs RULES: the tables loaded once by from_files
    last,       \* the operation that ran last, "init" before any
    input,      \* the text handed to the last constructor or rule
    stages,     \* the rule set (Default.rules) handed to it
    stored,     \* what the constructor or rule returned: [kind, ok, text]
    caller,     \* who made the last call: "crate" (the library) or "external"
    cur_attrs,      \* the Attributes<T> builder being filled: [table, marker]
    cur_childs,     \* the Vec<Element> being filled
    cur_node,       \* the IRNode constructed last, NoNode when handed on
    cur_renderer,   \* the HtmlRenderer the caller holds
    outs,           \* the finalized outputs of the renderings of the node
    visits,         \* the transitions a recording visitor was asked to make
    hist,       \* the (key, value) pairs added to cur_attrs.table, in call order
    other,      \* a second AttrHashMap, the argument of merge
    before,     \* cur_attrs.table as it was before the last operation on it
    arg,        \* the arguments of the last operation on the table
    res,        \* what that operation returned: [ok, table, text]
    cur_locale, \* the locale handed to the last table lookup
    looked,     \* what the lookups returned: [pairs, invisible]
    earlier,    \* the tables and the result of an earlier run: [rules, stored]
    threaded    \* the roots rendered, in order, through cur_renderer

trustVars == <<last, input, stages, stored, caller>>

renderVars == <<cur_attrs, cur_childs, cur_node, cur_renderer, outs, visits, threaded>>

attrVars == <<hist, other, before, arg, res>>

ruleVars == <<cur_locale, looked, earlier>>

\* -------------------------------------------------------------- characters

LSQ == "U+2018"     \* left single curly quote
RSQ == "U+2019"     \* right single curly quote
LDQ == "U+201C"     \* left double curly quote
RDQ == "U+201D"     \* right double curly quote
ZWSP == "U+200B"    \* zero width space
SAQ == "U+2039"     \* single left-pointing angle quotation mark
FW2 == "U+FF12"     \* fullwidth digit two
CYA == "U+0430"     \* cyrillic small letter a
BADCP == "U+D800"   \* a surrogate code point: char::from_u32 gives None

\* char::is_alphabetic on the characters of the model.
IsAlphabetic(c) ==
    c \in {"a", "b", "c", "d", "e", "g", "h", "i", "l", "m", "n", "p", "r", "s", "t",
           "v", "x", "y", "A", "H", "I", CYA}

\* char::from_u32: None for a surrogate.
FromU32Ok(cp) == cp # BADCP

\* The characters in ascending code point order (the order of char and, by
\* UTF-8, of String).
CodeOrder ==
    <<" ", "\"", "#", "&", "'", "(", ")", "-", ".", "/", "1", "2", "3", "9", ";", "<", "=",
      ">", "A", "H", "I", "a", "b", "c", "d", "e", "g", "h", "i", "l", "m", "n", "p",
      "q", "r", "s", "t", "u", "v", "x", "y", CYA, LSQ, RSQ, LDQ, RDQ, ZWSP, SAQ,
      FW2>>

CharRank(c) == CHOOSE i \in 1..Len(CodeOrder) : CodeOrder[i] = c

RECURSIVE Concat(_)
\* The concatenation of a sequence of texts.
Concat(ss) == IF ss = <<>> THEN <<>> ELSE Head(ss) \o Concat(Tail(ss))

Range(s) == {s[i] : i \in 1..Len(s)}

\* All texts of length at most n over the characters cs.
RECURSIVE TextsUpTo(_, _)
TextsUpTo(cs, n) ==
    IF n = 0 THEN {<<>>}
    ELSE LET shorter == TextsUpTo(cs, n - 1)
         IN  shorter \cup {Append(t, c) : t \in shorter, c \in cs}

\* ------------------------------------------------------- rules.rs: tables

DEFAULT == <<"_default">>
COMMON == <<"_common">>

\* A HashMap as a function: HashMap::get is Some exactly on the DOMAIN.
Has(m, k) == k \in DOMAIN m

\* ambiguous.json holds [original1, replacement1, original2, ...]:
\* chunks_exact(2) drops an odd last element, a pair with an invalid code
\* point is skipped, and a later insert of the same original overwrites.
RECURSIVE ReplaceMap(_)
ReplaceMap(v) ==
    IF Len(v) < 2 THEN << >>
    ELSE LET init == ReplaceMap(SubSeq(v, 1, Len(v) - 2 - (Len(v) % 2)))
             o == v[Len(v) - 1 - (Len(v) % 2)]
             r == v[Len(v) - (Len(v) % 2)]
         IN  IF FromU32Ok(o) /\ FromU32Ok(r)
             THEN [c \in DOMAIN init \cup {o} |-> IF c = o THEN r ELSE init[c]]
             ELSE init

\* SanitizationRules::from_files on the parsed contents of the two files
\* (each a HashMap<String, Vec<u32>>): the replacement map of every locale,
\* the invisible set of every locale, and the keys of a locale's replacement
\* map removed from the invisible set of the same locale.
from_files(invisible_data, ambiguous_data) ==
    LET ambiguous_map == [k \in DOMAIN ambiguous_data |-> ReplaceMap(ambiguous_data[k])]
        invisible_list(k) == {cp \in Range(invisible_data[k]) : FromU32Ok(cp)}
    IN  [invisible_chars |->
            [k \in DOMAIN invisible_data |->
                IF Has(ambiguous_map, k)
                THEN invisible_list(k) \ DOMAIN ambiguous_map[k]
                ELSE invisible_list(k)],
         ambiguous_map |-> ambiguous_map]

\* A locale is the sequence of its '-' separated parts: "zh-hans" is
\* <<"zh", "hans">>, contains('-') is Len > 1, split('-').next() the first.
lang_code(locale) == <<Head(locale)>>

\* The lookup falling back, for a locale with no set in reach, on the sets of
\* all the other locales.
get_invisible_chars_any_table(rules, locale) ==
    LET inv == rules.invisible_chars
        common == IF Has(inv, COMMON) THEN inv[COMMON] ELSE {}
        own == IF Has(inv, locale) THEN inv[locale]
               ELSE IF Len(locale) > 1 /\ Has(inv, lang_code(locale))
                    THEN inv[lang_code(locale)]
                    ELSE IF Has(inv, COMMON) THEN {}
                    ELSE UNION {inv[k] : k \in DOMAIN inv}
    IN  common \cup own

get_invisible_chars(rules, locale) ==
    LET inv == rules.invisible_chars
        common == IF Has(inv, COMMON) THEN inv[COMMON] ELSE {}
        own == IF Has(inv, locale) THEN inv[locale]
               ELSE IF Len(locale) > 1 /\ Has(inv, lang_code(locale))
                    THEN inv[lang_code(locale)]
                    ELSE {}
    IN  common \cup own

EMPTY_AMBIGUOUS_MAP == << >>

\* The lookup resolving every character by itself: the mapping of the first
\* table, in the order locale, language, _default, _common, that has the
\* character.
get_ambiguous_pairs_per_character(rules, locale) ==
    LET amb == rules.ambiguous_map
        order == <<locale>> \o (IF Len(locale) > 1 THEN <<lang_code(locale)>> ELSE <<>>)
                     \o <<DEFAULT, COMMON>>
        tables == {i \in 1..Len(order) : Has(amb, order[i])}
        first(c) == CHOOSE i \in tables :
                        /\ Has(amb[order[i]], c)
                        /\ \A j \in tables : Has(amb[order[j]], c) => i <= j
    IN  [c \in UNION {DOMAIN amb[order[i]] : i \in tables} |-> amb[order[first(c)]][c]]

get_ambiguous_pairs(rules, locale) ==
    LET amb == rules.ambiguous_map
    IN  IF Has(amb, locale) THEN amb[locale]
        ELSE IF Len(locale) > 1 /\ Has(amb, lang_code(locale)) THEN amb[lang_code(locale)]
        ELSE IF Has(amb, DEFAULT) THEN amb[DEFAULT]
        ELSE IF Has(amb, COMMON) THEN amb[COMMON]
        ELSE EMPTY_AMBIGUOUS_MAP

\* ------------------------------------------------- rules.rs: Default rules

\* The rule looking up the locale "zh".
replace_ambiguous_chars_zh(text) ==
    LET ambiguous_pair == get_ambiguous_pairs(RULES, <<"zh">>)
    IN  [i \in 1..Len(text) |->
            IF Has(ambiguous_pair, text[i]) THEN ambiguous_pair[text[i]] ELSE text[i]]

replace_ambiguous_chars(text) ==
    LET ambiguous_pair == get_ambiguous_pairs(RULES, DEFAULT)
    IN  [i \in 1..Len(text) |->
            IF Has(ambiguous_pair, text[i]) THEN ambiguous_pair[text[i]] ELSE text[i]]

remove_invisible_chars(text) ==
    LET invisible_set == get_invisible_chars(RULES, DEFAULT)
    IN  SelectSeq(text, LAMBDA c : c \notin invisible_set)

\* The scan with one toggle shared by double and single quotes.
RECURSIVE QuoteScan_shared_toggle(_, _, _, _)
QuoteScan_shared_toggle(chars, i, is_in_double_quote, is_in_single_quote) ==
    IF i > Len(chars) THEN <<>>
    ELSE LET c == chars[i]
             is_apostrophe ==
                 IF i - 1 > 0 /\ i - 1 < Len(chars) - 1
                 THEN IsAlphabetic(chars[i - 1]) /\ IsAlphabetic(chars[i + 1])
                 ELSE FALSE
         IN  IF c = "\""
             THEN <<IF is_in_double_quote THEN RDQ ELSE LDQ>>
                  \o QuoteScan_shared_toggle(chars, i + 1, ~is_in_double_quote,
                                             ~is_in_double_quote)
             ELSE IF c = "'"
             THEN IF is_apostrophe
                  THEN <<RSQ>>
                       \o QuoteScan_shared_toggle(chars, i + 1, is_in_double_quote,
                                                  is_in_single_quote)
                  ELSE <<IF is_in_single_quote THEN RSQ ELSE LSQ>>
                       \o QuoteScan_shared_toggle(chars, i + 1, ~is_in_single_quote,
                                                  ~is_in_single_quote)
             ELSE <<c>> \o QuoteScan_shared_toggle(chars, i + 1, is_in_double_quote,
                                                   is_in_single_quote)

\* The scan taking a single quote after a letter for an apostrophe, whatever
\* follows it.
RECURSIVE QuoteScan_left_neighbour(_, _, _, _)
QuoteScan_left_neighbour(chars, i, is_in_double_quote, is_in_single_quote) ==
    IF i > Len(chars) THEN <<>>
    ELSE LET c == chars[i]
             is_apostrophe ==
                 IF i - 1 > 0 THEN IsAlphabetic(chars[i - 1]) ELSE FALSE
         IN  IF c = "\""
             THEN <<IF is_in_double_quote THEN RDQ ELSE LDQ>>
                  \o QuoteScan_left_neighbour(chars, i + 1, ~is_in_double_quote,
                                              is_in_single_quote)
             ELSE IF c = "'"
             THEN IF is_apostrophe
                  THEN <<RSQ>>
                       \o QuoteScan_left_neighbour(chars, i + 1, is_in_double_quote,
                                                   is_in_single_quote)
                  ELSE <<IF is_in_single_quote THEN RSQ ELSE LSQ>>
                       \o QuoteScan_left_neighbour(chars, i + 1, is_in_double_quote,
                                                   ~is_in_single_quote)
             ELSE <<c>> \o QuoteScan_left_neighbour(chars, i + 1, is_in_double_quote,
                                                    is_in_single_quote)

\* The scan of punctuation_rule from position i on, with the two toggles as
\* they stand there.
RECURSIVE QuoteScan(_, _, _, _)
QuoteScan(chars, i, is_in_double_quote, is_in_single_quote) ==
    IF i > Len(chars) THEN <<>>
    ELSE LET c == chars[i]
             \* 0-based: i > 0 && i < chars.len() - 1
             is_apostrophe ==
                 IF i - 1 > 0 /\ i - 1 < Len(chars) - 1
                 THEN IsAlphabetic(chars[i - 1]) /\ IsAlphabetic(chars[i + 1])
                 ELSE FALSE
         IN  IF c = "\""
             THEN <<IF is_in_double_quote THEN RDQ ELSE LDQ>>
                  \o QuoteScan(chars, i + 1, ~is_in_double_quote, is_in_single_quote)
             ELSE IF c = "'"
             THEN IF is_apostrophe
                  THEN <<RSQ>>
                       \o QuoteScan(chars, i + 1, is_in_double_quote, is_in_single_quote)
                  ELSE <<IF is_in_single_quote THEN RSQ ELSE LSQ>>
                       \o QuoteScan(chars, i + 1, is_in_double_quote, ~is_in_single_quote)
             ELSE <<c>> \o QuoteScan(chars, i + 1, is_in_double_quote, is_in_single_quote)

\* punctuation_rule reading a curly quote as the straight one it came from.
punctuation_rule_from_curly(text) ==
    QuoteScan([i \in 1..Len(text) |->
                  IF text[i] \in {LDQ, RDQ} THEN "\""
                  ELSE IF text[i] \in {LSQ, RSQ} THEN "'"
                  ELSE text[i]],
              1, FALSE, FALSE)

punctuation_rule(text) == QuoteScan(text, 1, FALSE, FALSE)

Stages == {"All", "AmbiguousChar", "InvisibleCharacters", "Punctuation"}

\* apply_stage with the Punctuation stage leaving the text as it is.
apply_stage_punctuation_skipped(rule, result) ==
    CASE rule = "All" ->
            [ok |-> TRUE,
             text |-> punctuation_rule(remove_invisible_chars(replace_ambiguous_chars(result)))]
      [] rule = "AmbiguousChar" -> [ok |-> TRUE, text |-> replace_ambiguous_chars(result)]
      [] rule = "InvisibleCharacters" -> [ok |-> TRUE, text |-> remove_invisible_chars(result)]
      [] rule = "Punctuation" -> [ok |-> TRUE, text |-> result]

\* apply_stage with the All stage removing before it replaces.
apply_stage_invisible_first(rule, result) ==
    CASE rule = "All" ->
            [ok |-> TRUE,
             text |-> punctuation_rule(replace_ambiguous_chars(remove_invisible_chars(result)))]
      [] rule = "AmbiguousChar" -> [ok |-> TRUE, text |-> replace_ambiguous_chars(result)]
      [] rule = "InvisibleCharacters" -> [ok |-> TRUE, text |-> remove_invisible_chars(result)]
      [] rule = "Punctuation" -> [ok |-> FALSE, text |-> <<>>]

\* apply_stage with the All stage leaving the quotes as they are.
apply_stage_all_without_quotes(rule, result) ==
    CASE rule = "All" ->
            [ok |-> TRUE, text |-> remove_invisible_chars(replace_ambiguous_chars(result))]
      [] rule = "AmbiguousChar" -> [ok |-> TRUE, text |-> replace_ambiguous_chars(result)]
      [] rule = "InvisibleCharacters" -> [ok |-> TRUE, text |-> remove_invisible_chars(result)]
      [] rule = "Punctuation" -> [ok |-> FALSE, text |-> <<>>]

\* One iteration of the loop of Default::apply on the result so far;
\* RuleList::Punctuation is todo!(), a panic.
apply_stage(rule, result) ==
    CASE rule = "All" ->
            [ok |-> TRUE,
             text |-> punctuation_rule(remove_invisible_chars(replace_ambiguous_chars(result)))]
      [] rule = "AmbiguousChar" -> [ok |-> TRUE, text |-> replace_ambiguous_chars(result)]
      [] rule = "InvisibleCharacters" -> [ok |-> TRUE, text |-> remove_invisible_chars(result)]
      [] rule = "Punctuation" -> [ok |-> FALSE, text |-> <<>>]

\* Default::apply: the stages in list order, each on the previous result;
\* a panic ends the call.
RECURSIVE apply(_, _)
apply(rules, text) ==
    IF rules = <<>> THEN [ok |-> TRUE, text |-> text]
    ELSE LET r == apply_stage(Head(rules), text)
         IN  IF r.ok THEN apply(Tail(rules), r.text) ELSE r

\* ---------------------------------------------------------------- trust.rs

\* escape_char with the apostrophe written as the entity &apos;.
escape_char_apos(c) ==
    CASE c = "<" -> <<"&", "l", "t", ";">>
      [] c = ">" -> <<"&", "g", "t", ";">>
      [] c = "&" -> <<"&", "a", "m", "p", ";">>
      [] c = "\"" -> <<"&", "q", "u", "o", "t", ";">>
      [] c = "'" -> <<"&", "a", "p", "o", "s", ";">>
      [] OTHER -> <<c>>

escape_char(c) ==
    CASE c = "<" -> <<"&", "l", "t", ";">>
      [] c = ">" -> <<"&", "g", "t", ";">>
      [] c = "&" -> <<"&", "a", "m", "p", ";">>
      [] c = "\"" -> <<"&", "q", "u", "o", "t", ";">>
      [] c = "'" -> <<"&", "#", "3", "9", ";">>
      [] OTHER -> <<c>>

escape_html_chars(text) == Concat([i \in 1..Len(text) |-> escape_char(text[i])])

\* from_str with the two steps swapped: the escaping, then the rules.
SafeString_from_str_escape_first(s, rule) == apply(rule, escape_html_chars(s))

\* Content::from_str and AttrValue::from_str: the typography rules, then the
\* escaping; a panic of apply is a panic of the constructor.
SafeString_from_str(s, rule) ==
    LET typo == apply(rule, s)
    IN  IF typo.ok THEN [ok |-> TRUE, text |-> escape_html_chars(typo.text)] ELSE typo

\* Content::from_str without the escaping.
Content_from_str_unescaped(s, rule) == apply(rule, s)

Content_from_str(s, rule) == SafeString_from_str(s, rule)

AttrValue_from_str(s, rule) == SafeString_from_str(s, rule)

AttrKey_from_str(key) == key

\* HtmlBlock::from_str escaping its argument as the untrusted kinds do.
HtmlBlock_from_str_escaping(block) == escape_html_chars(block)

HtmlBlock_from_str(block) == block

TagName_from_str(block) == block

\* ------------------------------------------------------- attributes.rs

\* AttrValues: one record shape for the four variants.
Token(v) == [type |-> "Token", val |-> v, flag |-> FALSE, set |-> {}, list |-> <<>>]

Bool(b) == [type |-> "Bool", val |-> <<>>, flag |-> b, set |-> {}, list |-> <<>>]

Set(vs) == [type |-> "Set", val |-> <<>>, flag |-> FALSE, set |-> vs, list |-> <<>>]

List(vs) == [type |-> "List", val |-> <<>>, flag |-> FALSE, set |-> {}, list |-> vs]

\* The derived Ord of AttrKey and AttrValue: that of String, byte by byte.
RECURSIVE TextLess(_, _)
TextLess(a, b) ==
    IF b = <<>> THEN FALSE
    ELSE IF a = <<>> THEN TRUE
    ELSE IF Head(a) = Head(b) THEN TextLess(Tail(a), Tail(b))
    ELSE CharRank(Head(a)) < CharRank(Head(b))

RECURSIVE InsertSorted(_, _)
InsertSorted(sorted, x) ==
    IF sorted = <<>> THEN <<x>>
    ELSE IF TextLess(x, Head(sorted)) THEN <<x>> \o sorted
    ELSE <<Head(sorted)>> \o InsertSorted(Tail(sorted), x)

\* A slice left as it was collected: no sort at all.
sort_none(seq) == seq

RECURSIVE sort(_)
\* slice::sort and sort_by_key (stable) on texts.
sort(seq) ==
    IF seq = <<>> THEN <<>>
    ELSE InsertSorted(sort(SubSeq(seq, 1, Len(seq) - 1)), seq[Len(seq)])

\* The least text of a non-empty set.
MinText(S) == CHOOSE x \in S : \A y \in S : x = y \/ TextLess(x, y)

RECURSIVE Ascending(_)
Ascending(S) == IF S = {} THEN <<>> ELSE <<MinText(S)>> \o Ascending(S \ {MinText(S)})

Reverse(seq) == [i \in 1..Len(seq) |-> seq[Len(seq) + 1 - i]]

\* The order in which a HashMap or HashSet holding S is iterated is not
\* specified: it is the one the hasher's seed gives.  For up to three
\* elements the rotations of the ascending order and their reversals are all
\* the orders there are.
hash_iter(S, seed) ==
    LET n == Cardinality(S)
        asc == Ascending(S)
        rot == IF n = 0 THEN asc
               ELSE [i \in 1..n |-> asc[((i - 1 + seed) % n) + 1]]
    IN  IF n > 0 /\ (seed \div n) % 2 = 1 THEN Reverse(rot) ELSE rot

AttrHashMap_new == << >>

\* add keeping the value a present key holds (entry().or_insert()).
AttrHashMap_add_if_absent(table, k, v) ==
    [x \in DOMAIN table \cup {k} |-> IF x \in DOMAIN table THEN table[x] ELSE v]

\* AttrHashMap::add: HashMap::insert, whatever was there.
AttrHashMap_add(table, k, v) ==
    [x \in DOMAIN table \cup {k} |-> IF x = k THEN v ELSE table[x]]

\* merge extending self with map under both modes.
AttrHashMap_merge_force_only(self, map, mode) ==
    [x \in DOMAIN self \cup DOMAIN map |-> IF x \in DOMAIN map THEN map[x] ELSE self[x]]

\* AttrHashMap::merge: Keep inserts an entry of map only where self has no
\* such key (entry(k).or_insert(v)); Force extends self with the entries of
\* map, whatever was there.  The keys of a map are distinct, so the order in
\* which map is iterated does not show.
AttrHashMap_merge(self, map, mode) ==
    CASE mode = "Keep" ->
            [x \in DOMAIN self \cup DOMAIN map |->
                IF x \in DOMAIN self THEN self[x] ELSE map[x]]
      [] mode = "Force" ->
            [x \in DOMAIN self \cup DOMAIN map |->
                IF x \in DOMAIN map THEN map[x] ELSE self[x]]

\* with_added adding to the map behind self instead of to a clone of it.
SharedAttrs_with_added_in_place(self, k, v) ==
    [self |-> AttrHashMap_add(self, k, v), new |-> AttrHashMap_add(self, k, v)]

\* SharedAttrs::with_added(&self, k, v): the map behind self after the call
\* and the new SharedAttrs, made from a clone of the map.
SharedAttrs_with_added(self, k, v) ==
    LET new_map == self
    IN  [self |-> self, new |-> AttrHashMap_add(new_map, k, v)]

RECURSIVE JoinSpace(_)
JoinSpace(ts) ==
    IF ts = <<>> THEN <<>>
    ELSE IF Len(ts) = 1 THEN ts[1]
    ELSE ts[1] \o <<" ">> \o JoinSpace(Tail(ts))

\* attr_entry writing the key of a Bool whatever the flag.
attr_entry_any_flag(k, v, seed) ==
    CASE v.type = "Token" -> <<" ">> \o k \o <<"=", "\"">> \o v.val \o <<"\"">>
      [] v.type = "Bool" -> <<" ">> \o k
      [] v.type = "Set" ->
            IF v.set = {} THEN <<>>
            ELSE <<" ">> \o k \o <<"=", "\"">>
                 \o JoinSpace(sort(hash_iter(v.set, seed))) \o <<"\"">>
      [] OTHER -> <<>>

\* One entry of into_string: write!(result, r#" {}="{}""#, k, val).
attr_entry(k, v, seed) ==
    CASE v.type = "Token" -> <<" ">> \o k \o <<"=", "\"">> \o v.val \o <<"\"">>
      [] v.type = "Bool" -> IF v.flag THEN <<" ">> \o k ELSE <<>>
      [] v.type = "Set" ->
            IF v.set = {} THEN <<>>
            ELSE <<" ">> \o k \o <<"=", "\"">>
                 \o JoinSpace(sort(hash_iter(v.set, seed))) \o <<"\"">>
      [] OTHER -> <<>>

\* into_string writing the entries in the order the table is iterated in.
into_string_unsorted(table, seed) ==
    LET attrs == hash_iter(DOMAIN table, seed)
    IN  Concat([i \in 1..Len(attrs) |-> attr_entry(attrs[i], table[attrs[i]], seed)])

\* AttrHashMap::into_string, the table iterated in the order of seed.
into_string(table, seed) ==
    LET sorted_attrs == sort(hash_iter(DOMAIN table, seed))
    IN  Concat([i \in 1..Len(sorted_attrs) |->
                    attr_entry(sorted_attrs[i], table[sorted_attrs[i]], seed)])

K_id == <<"i", "d">>
K_class == <<"c", "l", "a", "s", "s">>
K_title == <<"t", "i", "t", "l", "e">>
K_src == <<"s", "r", "c">>
K_alt == <<"a", "l", "t">>
\* A boolean attribute (module doc: add(AttrKey::from_str("disabled"), Bool(true))).
K_disabled == <<"d", "i", "s", "a", "b", "l", "e", "d">>

\* Attributes<T>: the table and the marker type.
AttrBuilder_global == [table |-> AttrHashMap_new, marker |-> "Global"]

AttrBuilder_image == [table |-> AttrHashMap_new, marker |-> "Image"]

\* Global and Image implement ForGlobal, Image alone ForImage.
ForGlobal(marker) == marker \in {"Global", "Image"}

ForImage(marker) == marker = "Image"

Attributes_id(self, id) ==
    [self EXCEPT !.table = AttrHashMap_add(self.table, K_id, Token(id))]

Attributes_title(self, title) ==
    [self EXCEPT !.table = AttrHashMap_add(self.table, K_title, Token(title))]

Attributes_src(self, src) ==
    [self EXCEPT !.table = AttrHashMap_add(self.table, K_src, Token(src))]

Attributes_alt(self, alt) ==
    [self EXCEPT !.table = AttrHashMap_add(self.table, K_alt, Token(alt))]

\* class accepting a Bool under the class key.
Attributes_class_ok_always(self) == TRUE

\* Attributes::class: the incoming set united with what the class key holds;
\* a Bool there is unreachable!(), a panic.
Attributes_class_ok(self) ==
    ~(Has(self.table, K_class) /\ self.table[K_class].type = "Bool")

\* class storing the incoming set over whatever the key holds.
Attributes_class_overwrite(self, classes) ==
    [self EXCEPT !.table = AttrHashMap_add(self.table, K_class, Set(classes))]

Attributes_class(self, classes) ==
    LET existing ==
            IF ~Has(self.table, K_class) THEN {}
            ELSE LET e == self.table[K_class]
                 IN  CASE e.type = "Token" -> {e.val}
                       [] e.type = "Set" -> e.set
                       [] e.type = "List" -> Range(e.list)
                       [] OTHER -> {}
    IN  [self EXCEPT !.table = AttrHashMap_add(self.table, K_class, Set(classes \cup existing))]

\* ------------------------------------------------- node.rs and elements.rs

Text(content) == [el |-> "Text", text |-> content]

Node(irnode) == [el |-> "Node", node |-> irnode]

Raw(html_block) == [el |-> "Raw", text |-> html_block]

\* No node: the caller holds none.
NoNode == [ok |-> TRUE, tag |-> <<>>, attrs |-> << >>, tagtype |-> "none", childs |-> <<>>]

\* IRNode::new: the four fields as given; ok says that no panic happened.
IRNode_new(tag, attrs, tagtype, childs) ==
    [ok |-> TRUE, tag |-> tag, attrs |-> attrs, tagtype |-> tagtype, childs |-> childs]

T_h1 == <<"h", "1">>
T_h2 == <<"h", "2">>
T_div == <<"d", "i", "v">>
T_img == <<"i", "m", "g">>

\* H1::new(attrs, content).to_irnode()
H1_to_irnode(attrs, content) ==
    IRNode_new(TagName_from_str(T_h1), attrs.table, "Normal", <<Text(content)>>)

\* H2::new(attrs, content).to_irnode()
H2_to_irnode(attrs, content) ==
    IRNode_new(TagName_from_str(T_h2), attrs.table, "Normal", <<Text(content)>>)

\* Div::new(attrs, childs).to_irnode(): childs are the IR nodes of the boxes.
Div_to_irnode(attrs, nodes) ==
    IRNode_new(TagName_from_str(T_div), attrs.table, "Normal",
               [i \in 1..Len(nodes) |-> Node(nodes[i])])

\* Img::new(attrs).to_irnode()
Img_to_irnode(attrs) == IRNode_new(TagName_from_str(T_img), attrs.table, "Void", <<>>)

\* -------------------------------------------------------------- renderer.rs

HtmlRenderer_new == [buffer |-> HtmlBlock_from_str(<<>>)]

\* visit_node_begin writing '>' for both element types.
visit_node_begin_no_space(self, node, seed) ==
    [buffer |-> HtmlBlock_from_str(
        self.buffer \o <<"<">> \o node.tag \o into_string(node.attrs, seed) \o <<">">>)]

visit_node_begin(self, node, seed) ==
    [buffer |-> HtmlBlock_from_str(
        self.buffer \o <<"<">> \o node.tag \o into_string(node.attrs, seed)
        \o (IF node.tagtype = "Void" THEN <<" ", ">">> ELSE <<">">>))]

visit_node_end(self, node) ==
    [buffer |-> HtmlBlock_from_str(
        self.buffer
        \o (IF node.tagtype = "Normal" THEN <<"<", "/">> \o node.tag \o <<">">> ELSE <<>>))]

\* visit_text escaping the content a second time.
visit_text_escaping(self, content) ==
    [buffer |-> HtmlBlock_from_str(self.buffer \o escape_html_chars(content))]

visit_text(self, content) == [buffer |-> HtmlBlock_from_str(self.buffer \o content)]

\* visit_raw starting the buffer over with the fragment.
visit_raw_overwriting(self, html) == [buffer |-> HtmlBlock_from_str(html)]

visit_raw(self, html) == [buffer |-> HtmlBlock_from_str(self.buffer \o html)]

finalize(self) == self.buffer

\* IRNode::accept: begin, the fold over the children from child i on, end.
RECURSIVE accept(_, _, _), fold_childs(_, _, _, _)
fold_childs(childs, i, current_renderer, seed) ==
    IF i > Len(childs) THEN current_renderer
    ELSE LET child == childs[i]
             next == CASE child.el = "Text" -> visit_text(current_renderer, child.text)
                       [] child.el = "Node" -> accept(child.node, current_renderer, seed)
                       [] child.el = "Raw" -> visit_raw(current_renderer, child.text)
         IN  fold_childs(childs, i + 1, next, seed)

accept(node, renderer, seed) ==
    LET renderer_after_begin == visit_node_begin(renderer, node, seed)
        renderer_after_children == fold_childs(node.childs, 1, renderer_after_begin, seed)
    IN  visit_node_end(renderer_after_children, node)

\* An implementation of the Renderer trait that records the transitions it
\* is asked to make: its state is the transitions so far, each with its
\* kind, its argument and the number of transitions in the state it was
\* called on.
Recorder_new == <<>>

Recorder_visit_node_begin(self, node) ==
    Append(self, [ev |-> "visit_node_begin", node |-> node, text |-> <<>>, at |-> Len(self)])

Recorder_visit_node_end(self, node) ==
    Append(self, [ev |-> "visit_node_end", node |-> node, text |-> <<>>, at |-> Len(self)])

Recorder_visit_text(self, content) ==
    Append(self, [ev |-> "visit_text", node |-> NoNode, text |-> content, at |-> Len(self)])

Recorder_visit_raw(self, html) ==
    Append(self, [ev |-> "visit_raw", node |-> NoNode, text |-> html, at |-> Len(self)])

RECURSIVE accept_rec(_, _), fold_childs_rec(_, _, _), fold_childs_rec_from_begin(_, _, _, _)
\* The fold handing every child the renderer the fold started with and
\* keeping what the last child returned.
fold_childs_rec_from_begin(childs, i, current_renderer, first) ==
    IF i > Len(childs) THEN current_renderer
    ELSE LET child == childs[i]
             next == CASE child.el = "Text" -> Recorder_visit_text(first, child.text)
                       [] child.el = "Node" -> accept_rec(child.node, first)
                       [] child.el = "Raw" -> Recorder_visit_raw(first, child.text)
         IN  fold_childs_rec_from_begin(childs, i + 1, next, first)

\* fold_childs_rec with the accumulator of the fold lost between children.
fold_childs_rec_unthreaded(childs, i, current_renderer) ==
    fold_childs_rec_from_begin(childs, i, current_renderer, current_renderer)

\* IRNode::accept::<R> for the recording renderer: begin, the fold over the
\* children from child i on, end.
fold_childs_rec(childs, i, current_renderer) ==
    IF i > Len(childs) THEN current_renderer
    ELSE LET child == childs[i]
             next == CASE child.el = "Text" -> Recorder_visit_text(current_renderer, child.text)
                       [] child.el = "Node" -> accept_rec(child.node, current_renderer)
                       [] child.el = "Raw" -> Recorder_visit_raw(current_renderer, child.text)
         IN  fold_childs_rec(childs, i + 1, next)

accept_rec(node, renderer) ==
    LET renderer_after_begin == Recorder_visit_node_begin(renderer, node)
        renderer_after_children == fold_childs_rec(node.childs, 1, renderer_after_begin)
    IN  Recorder_visit_node_end(renderer_after_children, node)

\* The visibility of the three trusted constructors, as declared.
Vis_AttrKey_from_str == "pub"

Vis_HtmlBlock_from_str == "pub"

Vis_TagName_from_str == "pub(crate)"

\* A call compiles when the function is pub or the caller is in the crate.
CanCall(who, vis) == who = "crate" \/ vis = "pub"

Callers == {"crate", "external"}

\* ------------------------------------------------------------ input spaces

\* The parsed contents of invisibleCharacters.json and ambiguous.json the
\* tables are loaded from: none at all, a set with _default and _common
\* entries, and a set with only a _common replacement map.
NoFiles == [invisible |-> << >>, ambiguous |-> << >>]

StdFiles ==
    [invisible |-> (COMMON :> <<ZWSP, BADCP>>) @@ (DEFAULT :> <<FW2>>),
     ambiguous |-> (DEFAULT :> <<SAQ, "<", FW2, "2", ZWSP, " ", CYA>>)
                   @@ (COMMON :> <<CYA, "a">>)]

CommonFiles ==
    [invisible |-> (DEFAULT :> <<ZWSP>>),
     ambiguous |-> (COMMON :> <<SAQ, "<", BADCP, "a">>)]

TableFiles == {NoFiles, StdFiles, CommonFiles}

InputChars == {"<", "&", "\"", "'", "a"}

\* "<script>alert('x & y')</script>"
ScriptText ==
    <<"<", "s", "c", "r", "i", "p", "t", ">", "a", "l", "e", "r", "t", "(", "'", "x",
      " ", "&", " ", "y", "'", ")", "<", "/", "s", "c", "r", "i", "p", "t", ">">>

\* "&lt;script&gt;alert(&#39;x &amp; y&#39;)&lt;/script&gt;"
ScriptEscaped ==
    <<"&", "l", "t", ";", "s", "c", "r", "i", "p", "t", "&", "g", "t", ";",
      "a", "l", "e", "r", "t", "(", "&", "#", "3", "9", ";", "x", " ",
      "&", "a", "m", "p", ";", " ", "y", "&", "#", "3", "9", ";", ")",
      "&", "l", "t", ";", "/", "s", "c", "r", "i", "p", "t", "&", "g", "t", ";">>

\* "It's a \"test\""
ItsText == <<"I", "t", "'", "s", " ", "a", " ", "\"", "t", "e", "s", "t", "\"">>

LongTexts ==
    {ScriptText, ItsText, <<SAQ>>, <<"a", SAQ, "'">>, <<"a", ZWSP, ">", FW2, "'", "a">>}

Inputs == TextsUpTo(InputChars, MaxLen) \cup LongTexts

LongRuleSets == {<<"All", "All">>, <<"InvisibleCharacters", "AmbiguousChar", "All">>}

RuleSets == TextsUpTo(Stages, MaxStages) \cup LongRuleSets

NoAttrs == [table |-> AttrHashMap_new, marker |-> "none"]

\* No operation on the table yet: no arguments and no result.
NoArg == [k |-> <<>>, v |-> Bool(FALSE), mode |-> "none", classes |-> {}]

NoRes == [ok |-> TRUE, table |-> AttrHashMap_new, text |-> <<>>]

\* No lookup was made, and no earlier run.
NoLooked == [pairs |-> EMPTY_AMBIGUOUS_MAP, invisible |-> {}]

NoEarlier == [rules |-> [invisible_chars |-> << >>, ambiguous_map |-> << >>],
              stored |-> [kind |-> "none", ok |-> TRUE, text |-> <<>>]]

\* -------------------------------------------------- the trust-boundary spec

NoneStored == [kind |-> "none", ok |-> TRUE, text |-> <<>>]

\* The tables are loaded once; one constructor call is made, by caller, on
\* input and (for the two untrusted kinds) the rule set stages.
TrustInit ==
    /\ RULES \in {from_files(f.invisible, f.ambiguous) : f \in TableFiles}
    /\ last = "init"
    /\ input \in Inputs
    /\ stages \in RuleSets
    /\ caller \in Callers
    /\ stored = NoneStored
    /\ cur_attrs = NoAttrs
    /\ cur_childs = <<>>
    /\ cur_node = NoNode
    /\ cur_renderer = HtmlRenderer_new
    /\ outs = <<>>
    /\ visits = <<>>
    /\ hist = <<>>
    /\ other = AttrHashMap_new
    /\ before = AttrHashMap_new
    /\ arg = NoArg
    /\ res = NoRes
    /\ cur_locale = DEFAULT
    /\ looked = NoLooked
    /\ earlier = NoEarlier
    /\ threaded = <<>>

Returned(kind, r) == [kind |-> kind, ok |-> r.ok, text |-> r.text]

ContentFromStr ==
    /\ last = "init"
    /\ last' = "Content::from_str"
    /\ stored' = Returned("Content", Content_from_str(input, stages))
    /\ UNCHANGED <<RULES, input, stages, caller, renderVars, attrVars, ruleVars>>

AttrValueFromStr ==
    /\ last = "init"
    /\ last' = "AttrValue::from_str"
    /\ stored' = Returned("AttrValue", AttrValue_from_str(input, stages))
    /\ UNCHANGED <<RULES, input, stages, caller, renderVars, attrVars, ruleVars>>

\* The trusted constructors take no rule set.
AttrKeyFromStr ==
    /\ last = "init"
    /\ stages = <<>>
    /\ CanCall(caller, Vis_AttrKey_from_str)
    /\ last' = "AttrKey::from_str"
    /\ stored' = [kind |-> "AttrKey", ok |-> TRUE, text |-> AttrKey_from_str(input)]
    /\ UNCHANGED <<RULES, input, stages, caller, renderVars, attrVars, ruleVars>>

HtmlBlockFromStr ==
    /\ last = "init"
    /\ stages = <<>>
    /\ CanCall(caller, Vis_HtmlBlock_from_str)
    /\ last' = "HtmlBlock::from_str"
    /\ stored' = [kind |-> "HtmlBlock", ok |-> TRUE, text |-> HtmlBlock_from_str(input)]
    /\ UNCHANGED <<RULES, input, stages, caller, renderVars, attrVars, ruleVars>>

TagNameFromStr ==
    /\ last = "init"
    /\ stages = <<>>
    /\ CanCall(caller, Vis_TagName_from_str)
    /\ last' = "TagName::from_str"
    /\ stored' = [kind |-> "TagName", ok |-> TRUE, text |-> TagName_from_str(input)]
    /\ UNCHANGED <<RULES, input, stages, caller, renderVars, attrVars, ruleVars>>

TrustNext ==
    \/ ContentFromStr
    \/ AttrValueFromStr
    \/ AttrKeyFromStr
    \/ HtmlBlockFromStr
    \/ TagNameFromStr

vars == <<RULES, trustVars, renderVars, attrVars, ruleVars>>

SpecTrust == TrustInit /\ [][TrustNext]_vars

\* ------------------------------------------- the tree and rendering spec

\* "Hi", "<'", "A", "a.png", "\"<", "btn", "primary", "<b>"
HiText == <<"H", "i">>

ContentTexts == {HiText, <<"<", "'", "&">>}

\* The rule set of main.rs: Default { rules: vec![RuleList::All] }.
ContentRules == {<<"All">>}

RawTexts == {<<"<", "b", ">">>}

IdTexts == {<<"A">>}

SrcTexts == {<<"a", ".", "p", "n", "g">>}

AltTexts == {<<"A">>, <<"\"", "<">>}

ClassLists == {<<<<"p", "r", "i", "m", "a", "r", "y">>, <<"b", "t", "n">>>>}

AttrRule == <<"All">>

NodeTags == {T_div}

HashSeeds == 0..5

RECURSIVE NodeWeight(_), ChildsWeight(_)
NodeWeight(n) == 1 + Cardinality(DOMAIN n.attrs) + ChildsWeight(n.childs)

ChildsWeight(cs) ==
    IF cs = <<>> THEN 0
    ELSE (IF Head(cs).el = "Node" THEN NodeWeight(Head(cs).node) ELSE 1)
         + ChildsWeight(Tail(cs))

RECURSIVE RootsWeight(_)
RootsWeight(roots) ==
    IF roots = <<>> THEN 0 ELSE NodeWeight(Head(roots)) + RootsWeight(Tail(roots))

\* What was built: the builder, the children and the node under
\* construction, and the roots already rendered.
Weight ==
    Cardinality(DOMAIN cur_attrs.table) + ChildsWeight(cur_childs)
    + (IF cur_node = NoNode THEN 0 ELSE NodeWeight(cur_node))
    + RootsWeight(threaded)

\* AttrValues::build_set
build_set(list, rule) == {AttrValue_from_str(list[i], rule).text : i \in 1..Len(list)}

RenderInit ==
    /\ RULES = from_files(StdFiles.invisible, StdFiles.ambiguous)
    /\ last = "init"
    /\ input = <<>>
    /\ stages = <<>>
    /\ caller = "external"
    /\ stored = NoneStored
    /\ cur_attrs = NoAttrs
    /\ cur_childs = <<>>
    /\ cur_node = NoNode
    /\ cur_renderer = HtmlRenderer_new
    /\ outs = <<>>
    /\ visits = <<>>
    /\ hist = <<>>
    /\ other = AttrHashMap_new
    /\ before = AttrHashMap_new
    /\ arg = NoArg
    /\ res = NoRes
    /\ cur_locale = DEFAULT
    /\ looked = NoLooked
    /\ earlier = NoEarlier
    /\ threaded = <<>>

\* The caller starts the next element once the last node was handed on.
BuilderGlobal ==
    /\ cur_node = NoNode
    /\ cur_attrs' = AttrBuilder_global
    /\ last' = "AttrBuilder::global"
    /\ UNCHANGED <<ruleVars, threaded, attrVars, RULES, input, stages, stored, caller, cur_childs, cur_node, cur_renderer, outs, visits>>

BuilderImage ==
    /\ cur_node = NoNode
    /\ cur_attrs' = AttrBuilder_image
    /\ last' = "AttrBuilder::image"
    /\ UNCHANGED <<ruleVars, threaded, attrVars, RULES, input, stages, stored, caller, cur_childs, cur_node, cur_renderer, outs, visits>>

SetAttr(next, name) ==
    /\ cur_attrs' = next
    /\ Cardinality(DOMAIN next.table) > Cardinality(DOMAIN cur_attrs.table) => Weight < MaxWeight
    /\ last' = name
    /\ UNCHANGED <<ruleVars, threaded, attrVars, RULES, input, stages, stored, caller, cur_childs, cur_node, cur_renderer, outs, visits>>

AttrId ==
    \E s \in IdTexts :
        /\ ForGlobal(cur_attrs.marker)
        /\ SetAttr(Attributes_id(cur_attrs, AttrValue_from_str(s, AttrRule).text), "Attributes::id")

AttrClass ==
    \E l \in ClassLists :
        /\ ForGlobal(cur_attrs.marker)
        /\ Attributes_class_ok(cur_attrs)
        /\ SetAttr(Attributes_class(cur_attrs, build_set(l, AttrRule)), "Attributes::class")

AttrSrc ==
    \E s \in SrcTexts :
        /\ ForImage(cur_attrs.marker)
        /\ SetAttr(Attributes_src(cur_attrs, AttrValue_from_str(s, AttrRule).text), "Attributes::src")

AttrAlt ==
    \E s \in AltTexts :
        /\ ForImage(cur_attrs.marker)
        /\ SetAttr(Attributes_alt(cur_attrs, AttrValue_from_str(s, AttrRule).text), "Attributes::alt")

PushChild(child, name) ==
    /\ cur_node = NoNode
    /\ Weight < MaxWeight
    /\ cur_childs' = Append(cur_childs, child)
    /\ last' = name
    /\ UNCHANGED <<ruleVars, threaded, attrVars, RULES, input, stages, stored, caller, cur_attrs, cur_node, cur_renderer, outs, visits>>

\* vec.push(Element::Text(Content::from_str(s, rule)))
PushText ==
    \E s \in ContentTexts, rule \in ContentRules :
        PushChild(Text(Content_from_str(s, rule).text), "Element::Text")

\* vec.push(Element::Raw(HtmlBlock::from_str(t)))
PushRaw == \E t \in RawTexts : PushChild(Raw(HtmlBlock_from_str(t)), "Element::Raw")

\* The node constructed last is moved into the children.
PushNode ==
    /\ cur_node # NoNode
    /\ cur_node.ok
    /\ cur_childs' = Append(cur_childs, Node(cur_node))
    /\ cur_node' = NoNode
    /\ outs' = <<>>
    /\ visits' = <<>>
    /\ last' = "Element::Node"
    /\ UNCHANGED <<ruleVars, threaded, attrVars, RULES, input, stages, stored, caller, cur_attrs, cur_renderer>>

\* A clone of the last child is pushed: one subtree, twice in the tree.
PushClone ==
    /\ cur_node = NoNode
    /\ cur_childs # <<>>
    /\ cur_childs[Len(cur_childs)].el = "Node"
    /\ Weight + NodeWeight(cur_childs[Len(cur_childs)].node) <= MaxWeight - 1
    /\ cur_childs' = Append(cur_childs, cur_childs[Len(cur_childs)])
    /\ last' = "Element::clone"
    /\ UNCHANGED <<ruleVars, threaded, attrVars, RULES, input, stages, stored, caller, cur_attrs, cur_node, cur_renderer, outs, visits>>

Constructed(n, name) ==
    /\ cur_node' = n
    /\ cur_attrs' = NoAttrs
    /\ outs' = <<>>
    /\ visits' = <<>>
    /\ last' = name
    /\ UNCHANGED <<ruleVars, threaded, attrVars, RULES, input, stages, stored, caller, cur_renderer>>

H1New ==
    \E s \in ContentTexts, rule \in ContentRules :
        /\ cur_attrs.marker = "Global"
        /\ cur_node = NoNode
        /\ Weight + 2 <= MaxWeight
        /\ Constructed(H1_to_irnode(cur_attrs, Content_from_str(s, rule).text), "H1::new")
        /\ UNCHANGED cur_childs

\* Div::new takes boxed elements only: every child is a node.
DivNew ==
    /\ cur_attrs.marker = "Global"
    /\ cur_node = NoNode
    /\ \A i \in 1..Len(cur_childs) : cur_childs[i].el = "Node"
    /\ Weight + 1 <= MaxWeight
    /\ Constructed(Div_to_irnode(cur_attrs, [i \in 1..Len(cur_childs) |-> cur_childs[i].node]), "Div::new")
    /\ cur_childs' = <<>>

ImgNew ==
    /\ cur_attrs.marker = "Image"
    /\ cur_node = NoNode
    /\ Weight + 1 <= MaxWeight
    /\ Constructed(Img_to_irnode(cur_attrs), "Img::new")
    /\ UNCHANGED cur_childs

\* IRNode::new(tag, SharedAttrs::from_map(attrs.table), tagtype, childs)
IRNodeNewCall(tag, tagtype) ==
    /\ cur_attrs.marker # "none"
    /\ cur_node = NoNode
    /\ Weight + 1 <= MaxWeight
    /\ Constructed(IRNode_new(tag, cur_attrs.table, tagtype, cur_childs), "IRNode::new")
    /\ cur_childs' = <<>>

IRNodeNew == \E tag \in NodeTags, tagtype \in {"Void", "Normal"} : IRNodeNewCall(tag, tagtype)

\* node.accept(renderer.clone()).finalize(), the tables iterated in the
\* order of some seed.
Render ==
    \E seed \in HashSeeds :
        /\ cur_node # NoNode
        /\ cur_node.ok
        /\ Len(outs) < MaxRenders
        /\ outs' = Append(outs, finalize(accept(cur_node, cur_renderer, seed)))
        /\ last' = "IRNode::accept"
        /\ UNCHANGED <<ruleVars, threaded, attrVars, RULES, input, stages, stored, caller, cur_attrs, cur_childs, cur_node, cur_renderer, visits>>

\* node.accept(Recorder::new()): the walk of the node by the recording
\* renderer.
Walk ==
    /\ cur_node # NoNode
    /\ cur_node.ok
    /\ visits = <<>>
    /\ visits' = accept_rec(cur_node, Recorder_new)
    /\ last' = "IRNode::accept::<Recorder>"
    /\ UNCHANGED <<ruleVars, threaded, attrVars, RULES, input, stages, stored, caller, cur_attrs, cur_childs, cur_node,
                   cur_renderer, outs>>

\* The node constructed last is dropped.
DropNode ==
    /\ cur_node # NoNode
    /\ cur_node' = NoNode
    /\ outs' = <<>>
    /\ visits' = <<>>
    /\ last' = "drop"
    /\ UNCHANGED <<ruleVars, threaded, attrVars, RULES, input, stages, stored, caller, cur_attrs, cur_childs, cur_renderer>>

RenderNext ==
    \/ BuilderGlobal
    \/ BuilderImage
    \/ AttrId
    \/ AttrClass
    \/ AttrSrc
    \/ AttrAlt
    \/ PushText
    \/ PushRaw
    \/ PushNode
    \/ PushClone
    \/ H1New
    \/ DivNew
    \/ ImgNew
    \/ IRNodeNew
    \/ Render
    \/ Walk
    \/ DropNode

SpecRender == RenderInit /\ [][RenderNext]_vars

\* ------------------------------------------------ the attribute table spec

\* Most add and class calls on the table.
MaxAdds == 2

BtnText == <<"b", "t", "n">>

PrimaryText == <<"p", "r", "i", "m", "a", "r", "y">>

LargeText == <<"l", "a", "r", "g", "e">>

MainText == <<"m", "a", "i", "n">>

\* The entries add is called with: Token values under id, every shape under
\* class and both flags under disabled.
AttrPairs ==
    {[k |-> K_id, v |-> Token(<<"A">>)],
     [k |-> K_id, v |-> Token(MainText)],
     [k |-> K_class, v |-> Token(BtnText)],
     [k |-> K_class, v |-> Set({BtnText, PrimaryText})],
     [k |-> K_class, v |-> Set({})],
     [k |-> K_class, v |-> List(<<LargeText, BtnText>>)],
     [k |-> K_class, v |-> Bool(TRUE)],
     [k |-> K_disabled, v |-> Bool(TRUE)],
     [k |-> K_disabled, v |-> Bool(FALSE)]}

\* The sets class is called with.
IncomingSets == {{PrimaryText}, {BtnText, LargeText}, {}}

\* The maps merge is called with.
OtherMaps ==
    {AttrHashMap_new,
     (K_class :> Token(PrimaryText)),
     (K_class :> Set({LargeText, BtnText})) @@ (K_id :> Token(<<"B">>)),
     (K_id :> Token(MainText)) @@ (K_disabled :> Bool(TRUE)),
     (K_class :> List(<<LargeText>>)) @@ (K_disabled :> Bool(FALSE))}

MergeModes == {"Keep", "Force"}

\* A builder from AttrBuilder::global() and a second map; nothing was added.
TableInit ==
    /\ RULES = from_files(StdFiles.invisible, StdFiles.ambiguous)
    /\ last = "init"
    /\ input = <<>>
    /\ stages = <<>>
    /\ caller = "external"
    /\ stored = NoneStored
    /\ cur_attrs = AttrBuilder_global
    /\ cur_childs = <<>>
    /\ cur_node = NoNode
    /\ cur_renderer = HtmlRenderer_new
    /\ outs = <<>>
    /\ visits = <<>>
    /\ hist = <<>>
    /\ other \in OtherMaps
    /\ before = AttrHashMap_new
    /\ arg = NoArg
    /\ res = NoRes
    /\ cur_locale = DEFAULT
    /\ looked = NoLooked
    /\ earlier = NoEarlier
    /\ threaded = <<>>

\* What no operation on the table changes.
TableFrame ==
    UNCHANGED <<RULES, input, stages, stored, caller, cur_childs, cur_node, cur_renderer,
                outs, visits, other, ruleVars, threaded>>

\* attrs.table = attrs.table.add(k, v): table is a pub field.
TableAdd ==
    \E p \in AttrPairs :
        /\ res.ok
        /\ Len(hist) < MaxAdds
        /\ cur_attrs' = [cur_attrs EXCEPT !.table = AttrHashMap_add(cur_attrs.table, p.k, p.v)]
        /\ hist' = Append(hist, p)
        /\ before' = cur_attrs.table
        /\ arg' = [NoArg EXCEPT !.k = p.k, !.v = p.v]
        /\ res' = [NoRes EXCEPT !.table = cur_attrs'.table]
        /\ last' = "AttrHashMap::add"
        /\ TableFrame

\* attrs = attrs.class(classes); the call panics on a Bool under class.
TableClass ==
    \E classes \in IncomingSets :
        /\ res.ok
        /\ Len(hist) < MaxAdds
        /\ IF Attributes_class_ok(cur_attrs)
           THEN /\ cur_attrs' = Attributes_class(cur_attrs, classes)
                /\ hist' = Append(hist, [k |-> K_class, v |-> cur_attrs'.table[K_class]])
                /\ res' = [NoRes EXCEPT !.table = cur_attrs'.table]
           ELSE /\ cur_attrs' = cur_attrs
                /\ hist' = hist
                /\ res' = [NoRes EXCEPT !.ok = FALSE]
        /\ before' = cur_attrs.table
        /\ arg' = [NoArg EXCEPT !.classes = classes]
        /\ last' = "Attributes::class"
        /\ TableFrame

\* attrs.table.clone().merge(&other, mode)
TableMerge ==
    \E mode \in MergeModes :
        /\ res.ok
        /\ res' = [NoRes EXCEPT !.table = AttrHashMap_merge(cur_attrs.table, other, mode)]
        /\ before' = cur_attrs.table
        /\ arg' = [NoArg EXCEPT !.mode = mode]
        /\ last' = "AttrHashMap::merge"
        /\ UNCHANGED <<cur_attrs, hist>>
        /\ TableFrame

\* SharedAttrs::from_map(attrs.table.clone()).with_added(k, v)
TableWithAdded ==
    \E p \in AttrPairs :
        /\ res.ok
        /\ LET r == SharedAttrs_with_added(cur_attrs.table, p.k, p.v)
           IN  /\ cur_attrs' = [cur_attrs EXCEPT !.table = r.self]
               /\ res' = [NoRes EXCEPT !.table = r.new]
        /\ before' = cur_attrs.table
        /\ arg' = [NoArg EXCEPT !.k = p.k, !.v = p.v]
        /\ last' = "SharedAttrs::with_added"
        /\ UNCHANGED hist
        /\ TableFrame

\* attrs.table.into_string(), the table iterated in the order of some seed.
TableIntoString ==
    \E seed \in HashSeeds :
        /\ res.ok
        /\ res' = [NoRes EXCEPT !.text = into_string(cur_attrs.table, seed)]
        /\ before' = cur_attrs.table
        /\ arg' = NoArg
        /\ last' = "AttrHashMap::into_string"
        /\ UNCHANGED <<cur_attrs, hist>>
        /\ TableFrame

TableNext ==
    \/ TableAdd
    \/ TableClass
    \/ TableMerge
    \/ TableWithAdded
    \/ TableIntoString

SpecAttrs == TableInit /\ [][TableNext]_vars

\* ------------------------------------------- the threaded renderer spec

\* renderer = node.accept(renderer): the node constructed last is rendered
\* into the renderer the caller keeps, after the roots rendered before, and
\* is dropped.
RenderThreaded ==
    \E seed \in HashSeeds :
        /\ cur_node # NoNode
        /\ cur_node.ok
        /\ Len(threaded) < MaxRenders
        /\ cur_renderer' = accept(cur_node, cur_renderer, seed)
        /\ threaded' = Append(threaded, cur_node)
        /\ cur_node' = NoNode
        /\ last' = "IRNode::accept(renderer)"
        /\ UNCHANGED <<ruleVars, attrVars, RULES, input, stages, stored, caller, cur_attrs,
                       cur_childs, outs, visits>>

ThreadNext ==
    \/ BuilderGlobal
    \/ AttrId
    \/ PushText
    \/ PushRaw
    \/ PushNode
    \/ IRNodeNew
    \/ RenderThreaded

SpecThread == RenderInit /\ [][ThreadNext]_vars

\* ------------------------------------------------ the typography rules spec

QuoteChars == {"\"", "'", "a", LDQ, RSQ}

\* Texts of straight and curly quotes and letters.
QuoteInputs == TextsUpTo(QuoteChars, MaxLen) \cup {ItsText, <<LSQ, "a", RDQ>>}

\* Rule sets with the Punctuation stage after and before another stage.
PunctuationRuleSets == {<<"All", "Punctuation">>, <<"Punctuation", "All">>}

\* The tables are loaded once; a rule is applied to input, apply with the
\* rule set stages.
RulesInit ==
    /\ RULES \in {from_files(f.invisible, f.ambiguous) : f \in TableFiles}
    /\ last = "init"
    /\ input \in QuoteInputs
    /\ stages \in RuleSets \cup PunctuationRuleSets
    /\ caller = "crate"
    /\ stored = NoneStored
    /\ cur_attrs = NoAttrs
    /\ cur_childs = <<>>
    /\ cur_node = NoNode
    /\ cur_renderer = HtmlRenderer_new
    /\ outs = <<>>
    /\ visits = <<>>
    /\ hist = <<>>
    /\ other = AttrHashMap_new
    /\ before = AttrHashMap_new
    /\ arg = NoArg
    /\ res = NoRes
    /\ cur_locale = DEFAULT
    /\ looked = NoLooked
    /\ earlier = NoEarlier
    /\ threaded = <<>>

\* self.punctuation_rule(input)
PunctuationRule ==
    /\ last = "init"
    /\ stored' = [kind |-> "String", ok |-> TRUE, text |-> punctuation_rule(input)]
    /\ last' = "punctuation_rule"
    /\ UNCHANGED <<RULES, input, stages, caller, renderVars, attrVars, ruleVars>>

\* The rule applied to the text it returned.
PunctuationRuleAgain ==
    /\ last = "punctuation_rule"
    /\ input' = stored.text
    /\ stored' = [kind |-> "String", ok |-> TRUE, text |-> punctuation_rule(stored.text)]
    /\ last' = "punctuation_rule twice"
    /\ UNCHANGED <<RULES, stages, caller, renderVars, attrVars, ruleVars>>

\* Default { rules: stages }.apply(input)
DefaultApply ==
    /\ last = "init"
    /\ stored' = Returned("String", apply(stages, input))
    /\ last' = "Default::apply"
    /\ UNCHANGED <<RULES, input, stages, caller, renderVars, attrVars, ruleVars>>

RulesNext ==
    \/ PunctuationRule
    \/ PunctuationRuleAgain
    \/ DefaultApply

SpecRules == RulesInit /\ [][RulesNext]_vars

\* ------------------------------------------------- the locale tables spec

ZH == <<"zh">>
ZH_HANS == <<"zh", "hans">>
ZH_HANT == <<"zh", "hant">>
FR == <<"fr">>
PRIME == "U+2032"

\* The entries of StdFiles and entries for zh and zh-hans beside them.
ZhFiles ==
    [invisible |-> StdFiles.invisible @@ (ZH :> <<CYA>>),
     ambiguous |-> StdFiles.ambiguous @@ (ZH :> <<SAQ, "a">>) @@ (ZH_HANS :> <<FW2, "a">>)]

\* Entries for zh alone: no _default and no _common entry.
OnlyZhFiles ==
    [invisible |-> (ZH :> <<ZWSP>>),
     ambiguous |-> (ZH :> <<SAQ, "a">>)]

\* Tables that name quote characters: a curly quote with a replacement and
\* the straight double quote as an invisible character.
QuoteFiles ==
    [invisible |-> (COMMON :> <<"\"">>),
     ambiguous |-> (DEFAULT :> <<RSQ, PRIME>>)]

LocaleFiles == TableFiles \cup {ZhFiles, OnlyZhFiles, QuoteFiles}

Locales == {DEFAULT, ZH_HANS, ZH_HANT, ZH, FR}

TableChars == {SAQ, ZWSP, CYA, "'"}

TableInputs ==
    TextsUpTo(TableChars, MaxLen)
        \cup {<<FW2>>, <<"\"", "<", "'">>, <<"a", "'", "a">>, <<"'", "&", "\"", "\"">>}

\* The tables are loaded once from the two files.
LocaleInit ==
    /\ RULES \in {from_files(f.invisible, f.ambiguous) : f \in LocaleFiles}
    /\ last = "init"
    /\ input \in TableInputs
    /\ stages \in RuleSets
    /\ caller = "crate"
    /\ stored = NoneStored
    /\ cur_attrs = NoAttrs
    /\ cur_childs = <<>>
    /\ cur_node = NoNode
    /\ cur_renderer = HtmlRenderer_new
    /\ outs = <<>>
    /\ visits = <<>>
    /\ hist = <<>>
    /\ other = AttrHashMap_new
    /\ before = AttrHashMap_new
    /\ arg = NoArg
    /\ res = NoRes
    /\ cur_locale = DEFAULT
    /\ looked = NoLooked
    /\ earlier = NoEarlier
    /\ threaded = <<>>

\* RULES.get_ambiguous_pairs(locale); a lookup takes no text and no rule set.
GetAmbiguousPairs ==
    /\ last = "init"
    /\ input = <<>>
    /\ stages = <<>>
    /\ \E l \in Locales :
        /\ cur_locale' = l
        /\ looked' = [looked EXCEPT !.pairs = get_ambiguous_pairs(RULES, l)]
    /\ last' = "get_ambiguous_pairs"
    /\ UNCHANGED <<RULES, input, stages, stored, caller, renderVars, attrVars, earlier>>

\* RULES.get_invisible_chars(locale)
GetInvisibleChars ==
    /\ last = "init"
    /\ input = <<>>
    /\ stages = <<>>
    /\ \E l \in Locales :
        /\ cur_locale' = l
        /\ looked' = [looked EXCEPT !.invisible = get_invisible_chars(RULES, l)]
    /\ last' = "get_invisible_chars"
    /\ UNCHANGED <<RULES, input, stages, stored, caller, renderVars, attrVars, earlier>>

\* self.replace_ambiguous_chars(input); the rule reads no rule set.
ReplaceAmbiguousChars ==
    /\ last = "init"
    /\ stages = <<>>
    /\ stored' = [kind |-> "String", ok |-> TRUE, text |-> replace_ambiguous_chars(input)]
    /\ last' = "replace_ambiguous_chars"
    /\ UNCHANGED <<RULES, input, stages, caller, renderVars, attrVars, ruleVars>>

\* self.remove_invisible_chars(input)
RemoveInvisibleChars ==
    /\ last = "init"
    /\ stages = <<>>
    /\ stored' = [kind |-> "String", ok |-> TRUE, text |-> remove_invisible_chars(input)]
    /\ last' = "remove_invisible_chars"
    /\ UNCHANGED <<RULES, input, stages, caller, renderVars, attrVars, ruleVars>>

\* Two loaded table sets with the same _default and _common entries.
SameDefaultAndCommon(r1, r2) ==
    \A k \in {DEFAULT, COMMON} :
        /\ Has(r1.ambiguous_map, k) <=> Has(r2.ambiguous_map, k)
        /\ Has(r1.ambiguous_map, k) => r1.ambiguous_map[k] = r2.ambiguous_map[k]
        /\ Has(r1.invisible_chars, k) <=> Has(r2.invisible_chars, k)
        /\ Has(r1.invisible_chars, k) => r1.invisible_chars[k] = r2.invisible_chars[k]

\* The program is run again with other files, which have the same _default
\* and _common entries; the tables and the result of the first run are kept
\* for comparison.
Reload ==
    /\ last = "Default::apply"
    /\ \E f \in LocaleFiles :
        /\ SameDefaultAndCommon(from_files(f.invisible, f.ambiguous), RULES)
        /\ RULES' = from_files(f.invisible, f.ambiguous)
    /\ earlier' = [rules |-> RULES, stored |-> stored]
    /\ last' = "lazy_static RULES"
    /\ UNCHANGED <<input, stages, stored, caller, renderVars, attrVars, cur_locale, looked>>

\* Default { rules: stages }.apply(input) of the second run
DefaultApplyAgain ==
    /\ last = "lazy_static RULES"
    /\ stored' = Returned("String", apply(stages, input))
    /\ last' = "Default::apply again"
    /\ UNCHANGED <<RULES, input, stages, caller, renderVars, attrVars, ruleVars>>

LocaleNext ==
    \/ GetAmbiguousPairs
    \/ GetInvisibleChars
    \/ ReplaceAmbiguousChars
    \/ RemoveInvisibleChars
    \/ DefaultApply
    \/ ContentFromStr
    \/ AttrValueFromStr
    \/ Reload
    \/ DefaultApplyAgain

SpecLocale == LocaleInit /\ [][LocaleNext]_vars

\* ------------------------------------------------ trust-boundary properties

Untrusted == {"Content", "AttrValue"}

Trusted == {"AttrKey", "TagName", "HtmlBlock"}

\* The five entities escaping writes.
Entities ==
    {<<"&", "l", "t", ";">>, <<"&", "g", "t", ";">>, <<"&", "a", "m", "p", ";">>,
     <<"&", "q", "u", "o", "t", ";">>, <<"&", "#", "3", "9", ";">>}

EntityAt(text, i) ==
    \E e \in Entities : i + Len(e) - 1 <= Len(text) /\ SubSeq(text, i, i + Len(e) - 1) = e

\* C1: the text stored by Content::from_str and AttrValue::from_str holds no
\* '<', '>', '"' or "'" at all, and every '&' in it starts one of the five
\* entities, for every input and every rule set.
C1_NoLiteralSpecials ==
    (stored.kind \in Untrusted /\ stored.ok) =>
        \A i \in 1..Len(stored.text) :
            /\ stored.text[i] \notin {"<", ">", "\"", "'"}
            /\ stored.text[i] = "&" => EntityAt(stored.text, i)

\* A '<' made by the ambiguous-character stage and an apostrophe of the
\* input, both stored as entities.
C1_Witness ==
    /\ last = "Content::from_str"
    /\ input = <<"a", SAQ, "'">>
    /\ stages = <<"AmbiguousChar">>
    /\ stored.text = <<"a", "&", "l", "t", ";", "&", "#", "3", "9", ";">>

NamedEntity(c) ==
    IF c = "<" THEN <<"&", "l", "t", ";">>
    ELSE IF c = ">" THEN <<"&", "g", "t", ";">>
    ELSE IF c = "&" THEN <<"&", "a", "m", "p", ";">>
    ELSE IF c = "\"" THEN <<"&", "q", "u", "o", "t", ";">>
    ELSE IF c = "'" THEN <<"&", "#", "3", "9", ";">>
    ELSE <<c>>

\* C3: Content::from_str and AttrValue::from_str store the output of
\* rule.apply with each of the five characters replaced by its entity and
\* every other character copied (and return nothing when apply panics); the
\* script text, with a rule set that leaves it alone, is stored as
\* ScriptEscaped.
C3_StoresEscapedTypography ==
    stored.kind \in Untrusted =>
        LET typo == apply(stages, input)
        IN  /\ stored.ok = typo.ok
            /\ typo.ok =>
                 stored.text = Concat([i \in 1..Len(typo.text) |-> NamedEntity(typo.text[i])])
            /\ (input = ScriptText /\ stages = <<>>) => stored.text = ScriptEscaped

C3_Witness ==
    /\ last = "Content::from_str"
    /\ input = ScriptText
    /\ stages = <<>>
    /\ stored.text = ScriptEscaped

\* C4: AttrKey::from_str, TagName::from_str and HtmlBlock::from_str store
\* their argument as it is.
C4_TrustedStoredVerbatim ==
    stored.kind \in Trusted => stored.ok /\ stored.text = input

C4_Witness ==
    /\ last = "HtmlBlock::from_str"
    /\ input = <<"<", "'", "&">>
    /\ stored.text = <<"<", "'", "&">>

\* A call of one of these is the caller's explicit statement that its
\* argument is trusted markup (trust.rs, the Safety note of HtmlBlock).
TrustAssertions == {"HtmlBlock::from_str"}

\* C5: an external caller gets a key, a tag name or a raw fragment only by
\* a call that asserts trust; the others are made inside the crate.
C5_TrustedOnlyInCrateOrAsserted ==
    (stored.kind \in Trusted /\ caller = "external") => last \in TrustAssertions

\* ------------------------------------------------------ tree and rendering

Count(text, c) == Cardinality({i \in 1..Len(text) : text[i] = c})

RECURSIVE Nodes(_), Normals(_), HasRaw(_), VoidsEmpty(_)
\* The nodes of a tree.
Nodes(n) ==
    1 + Len(Concat([i \in 1..Len(n.childs) |->
                        IF n.childs[i].el = "Node"
                        THEN [j \in 1..Nodes(n.childs[i].node) |-> j] ELSE <<>>]))

\* The nodes of kind Normal of a tree.
Normals(n) ==
    (IF n.tagtype = "Normal" THEN 1 ELSE 0)
    + Len(Concat([i \in 1..Len(n.childs) |->
                      IF n.childs[i].el = "Node"
                      THEN [j \in 1..Normals(n.childs[i].node) |-> j] ELSE <<>>]))

HasRaw(n) ==
    \E i \in 1..Len(n.childs) :
        \/ n.childs[i].el = "Raw"
        \/ n.childs[i].el = "Node" /\ HasRaw(n.childs[i].node)

\* Every Void node of the tree has no children.
VoidsEmpty(n) ==
    /\ n.tagtype = "Void" => n.childs = <<>>
    /\ \A i \in 1..Len(n.childs) : n.childs[i].el = "Node" => VoidsEmpty(n.childs[i].node)

\* C2: a tree without Raw children, its texts and attribute values made by
\* the untrusted constructors, renders with '<' and '>' only as the
\* delimiters of its tags: one of each per node, one more per Normal node.
C2_OnlyTagDelimiters ==
    \A k \in 1..Len(outs) :
        ~HasRaw(cur_node) =>
            /\ Count(outs[k], "<") = Nodes(cur_node) + Normals(cur_node)
            /\ Count(outs[k], ">") = Nodes(cur_node) + Normals(cur_node)

\* A rendered tree: a text child written from "<'&" and an attribute value
\* written from "\"<".
C2_Witness ==
    /\ last = "IRNode::accept"
    /\ ~HasRaw(cur_node)
    /\ K_alt \in DOMAIN cur_node.attrs
    /\ cur_node.attrs[K_alt].val = <<LDQ, "&", "l", "t", ";">>
    /\ \E i \in 1..Len(cur_node.childs) :
           /\ cur_node.childs[i].el = "Text"
           /\ cur_node.childs[i].text = <<"&", "l", "t", ";", LSQ, "&", "a", "m", "p", ";">>

\* C6: a Void node has no children, in the tree constructed last and in the
\* children being collected, at every moment.
C6_VoidHasNoChildren ==
    /\ VoidsEmpty(cur_node)
    /\ \A i \in 1..Len(cur_childs) :
           cur_childs[i].el = "Node" => VoidsEmpty(cur_childs[i].node)

\* C7: IRNode::new called with ElementType::Void and a non-empty children
\* vector aborts: it returns no node.
C7_VoidWithChildrenAborts ==
    [][\A tag \in NodeTags :
           (cur_childs # <<>> /\ IRNodeNewCall(tag, "Void")) => ~cur_node'.ok]_vars

\* The attribute text of C8: the entries in ascending key order.
EntryText(k, v) ==
    IF v.type = "Token" THEN <<" ">> \o k \o <<"=", "\"">> \o v.val \o <<"\"">>
    ELSE IF v.type = "Bool" /\ v.flag THEN <<" ">> \o k
    ELSE IF v.type = "Set" /\ v.set # {}
         THEN <<" ">> \o k \o <<"=", "\"">> \o JoinSpace(Ascending(v.set)) \o <<"\"">>
    ELSE <<>>

AttrsText(table) ==
    LET keys == Ascending(DOMAIN table)
    IN  Concat([i \in 1..Len(keys) |-> EntryText(keys[i], table[keys[i]])])

RECURSIVE Rendering(_)
\* The text of C8 for a node.
Rendering(n) ==
    <<"<">> \o n.tag \o AttrsText(n.attrs)
    \o (IF n.tagtype = "Void" THEN <<" ", ">">> ELSE <<">">>)
    \o Concat([i \in 1..Len(n.childs) |->
                  IF n.childs[i].el = "Node" THEN Rendering(n.childs[i].node)
                  ELSE n.childs[i].text])
    \o (IF n.tagtype = "Normal" THEN <<"<", "/">> \o n.tag \o <<">">> ELSE <<>>)

\* A Normal div with no attributes and the one Text child Hi.
DivHi == IRNode_new(T_div, AttrHashMap_new, "Normal", <<Text(HiText)>>)

\* "<div>Hi</div>"
DivHiText == <<"<", "d", "i", "v", ">", "H", "i", "<", "/", "d", "i", "v", ">">>

\* C8: a node rendered with a fresh renderer gives its opening tag with the
\* serialized attributes, the renderings of its children in order, and its
\* closing tag when it is Normal; DivHi gives "<div>Hi</div>".
C8_RenderingText ==
    \A k \in 1..Len(outs) :
        /\ outs[k] = Rendering(cur_node)
        /\ cur_node = DivHi => outs[k] = DivHiText

C8_Witness ==
    /\ last = "IRNode::accept"
    /\ cur_node = DivHi
    /\ outs = <<DivHiText>>

\* Nested nodes, a text and a raw fragment all rendered by one accept.
C8_NestedReached ==
    /\ last = "IRNode::accept"
    /\ \E i \in 1..Len(cur_node.childs) : cur_node.childs[i].el = "Node"
    /\ \E i \in 1..Len(cur_node.childs) : cur_node.childs[i].el = "Raw"

\* src="a.png" and alt="A"
SrcAlt ==
    AttrHashMap_add(AttrHashMap_add(AttrHashMap_new, K_src, Token(<<"a", ".", "p", "n", "g">>)),
                    K_alt, Token(<<"A">>))

\* "<img alt=\"A\" src=\"a.png\" >"
ImgText ==
    <<"<", "i", "m", "g", " ", "a", "l", "t", "=", "\"", "A", "\"", " ", "s", "r", "c", "=",
      "\"", "a", ".", "p", "n", "g", "\"", " ", ">">>

\* C9: a Void img with src="a.png" and alt="A" renders as ImgText, whatever
\* the order of the two inserts and of the iteration of the table.
C9_ImgScenario ==
    (/\ cur_node.tag = T_img
     /\ cur_node.tagtype = "Void"
     /\ cur_node.childs = <<>>
     /\ cur_node.attrs = SrcAlt) =>
        \A k \in 1..Len(outs) : outs[k] = ImgText

\* The img built by alt then src, rendered twice.
C9_Witness ==
    /\ last = "IRNode::accept"
    /\ cur_node = Img_to_irnode([table |-> SrcAlt, marker |-> "Image"])
    /\ outs = <<ImgText, ImgText>>

\* Where the rendering of child i starts in the rendering of n, less one.
RECURSIVE ChildOffset(_, _)
ChildOffset(n, i) ==
    IF i = 1 THEN Len(finalize(visit_node_begin(HtmlRenderer_new, n, 0)))
    ELSE ChildOffset(n, i - 1)
         + (IF n.childs[i - 1].el = "Node"
            THEN Len(finalize(accept(n.childs[i - 1].node, HtmlRenderer_new, 0)))
            ELSE Len(n.childs[i - 1].text))

\* The outputs os are all the same text.
OutsAgree(os) == \A i, j \in 1..Len(os) : os[i] = os[j]

\* Every subtree of n renders inside n, in the outputs os, to the text it
\* renders to alone, whatever the order the tables are iterated in.
SubtreesAsAlone(n, os) ==
    \A i \in 1..Len(n.childs) :
        n.childs[i].el = "Node" =>
            LET at == ChildOffset(n, i)
            IN  \A seed \in HashSeeds :
                    LET alone == finalize(accept(n.childs[i].node, HtmlRenderer_new, seed))
                    IN  \A k \in 1..Len(os) : SubSeq(os[k], at + 1, at + Len(alone)) = alone

\* C10: the renderings of one tree are all the same text, a subtree renders
\* inside each tree as it does alone, and a rendering changes neither the
\* tree nor the renderer handed to accept.
C10_Deterministic ==
    [][last' = "IRNode::accept" =>
           /\ cur_node' = cur_node
           /\ cur_renderer' = cur_renderer
           /\ OutsAgree(outs')
           /\ SubtreesAsAlone(cur_node', outs')]_vars

\* A tree holding one subtree twice, rendered twice.
C10_Witness ==
    /\ last = "IRNode::accept"
    /\ Len(outs) = 2
    /\ Len(cur_node.childs) = 2
    /\ cur_node.childs[1].el = "Node"
    /\ cur_node.childs[1] = cur_node.childs[2]
    /\ DOMAIN cur_node.attrs # {}

\* ------------------------------------------------ attribute table properties

\* The table made by adding the pairs of h in order to an empty one.
RECURSIVE Build(_)
Build(h) ==
    IF h = <<>> THEN AttrHashMap_new
    ELSE AttrHashMap_add(Build(SubSeq(h, 1, Len(h) - 1)), h[Len(h)].k, h[Len(h)].v)

DistinctKeys(h) == \A i, j \in 1..Len(h) : i # j => h[i].k # h[j].k

\* Every order of the pairs of h.
Orders(h) ==
    {[i \in 1..Len(h) |-> h[f[i]]] :
        f \in {g \in [1..Len(h) -> 1..Len(h)] : \A i, j \in 1..Len(h) : i # j => g[i] # g[j]}}

\* C11: when distinct keys were added, every order of the same add calls
\* gives a table that serializes, under every iteration order of the table
\* and of its Set values, to the very text into_string returned.
C11_InsertionOrderInvariant ==
    (last = "AttrHashMap::into_string" /\ DistinctKeys(hist))
        => \A h \in Orders(hist), seed \in HashSeeds :
               into_string(Build(h), seed) = res.text

\* Two keys added, one of them a Set of two members, and serialized.
C11_Witness ==
    /\ last = "AttrHashMap::into_string"
    /\ Len(hist) >= 2
    /\ DistinctKeys(hist)
    /\ \E h \in Orders(hist) : h # hist
    /\ \E i \in 1..Len(hist) : hist[i].v.type = "Set" /\ Cardinality(hist[i].v.set) >= 2
    /\ res.text # <<>>

\* An entry that into_string writes nothing for.
Silent(v) ==
    \/ v.type = "Bool" /\ ~v.flag
    \/ v.type = "Set" /\ v.set = {}
    \/ v.type = "List"

\* C12: into_string returns the entries in ascending key order, each one
\* after one space: Token as key="v", Bool(true) as the key, a non-empty Set
\* as key="m1 m2" with the members ascending; Bool(false), an empty Set and
\* a List give no text at all.
C12_SerializedForm ==
    last = "AttrHashMap::into_string"
        => /\ res.text = AttrsText(before)
           /\ (\A k \in DOMAIN before : Silent(before[k])) => res.text = <<>>
           /\ Count(res.text, " ")
                >= Cardinality({k \in DOMAIN before : ~Silent(before[k])})

\* class="btn primary"
ClassBtnPrimary ==
    <<" ", "c", "l", "a", "s", "s", "=", "\"", "b", "t", "n", " ",
      "p", "r", "i", "m", "a", "r", "y", "\"">>

\* A Set of two members and a false flag are serialized: the flag is silent.
C12_Witness ==
    /\ last = "AttrHashMap::into_string"
    /\ before = (K_class :> Set({BtnText, PrimaryText})) @@ (K_disabled :> Bool(FALSE))
    /\ res.text = ClassBtnPrimary

\* C13: merge with Keep leaves every key of self as it was and adds the
\* keys only map has; merge with Force holds map's value for every key of
\* map and self's for the keys map lacks.
C13_MergePolicies ==
    last = "AttrHashMap::merge"
        => /\ DOMAIN res.table = DOMAIN before \cup DOMAIN other
           /\ arg.mode = "Keep"
                => /\ \A k \in DOMAIN before : res.table[k] = before[k]
                   /\ \A k \in DOMAIN other \ DOMAIN before : res.table[k] = other[k]
           /\ arg.mode = "Force"
                => /\ \A k \in DOMAIN other : res.table[k] = other[k]
                   /\ \A k \in DOMAIN before \ DOMAIN other : res.table[k] = before[k]

\* A merge of maps with a key in both, under different values, a key of
\* self alone and a key of map alone.
C13_Witness ==
    /\ last = "AttrHashMap::merge"
    /\ \E k \in DOMAIN before \cap DOMAIN other : before[k] # other[k]
    /\ DOMAIN before \ DOMAIN other # {}
    /\ DOMAIN other \ DOMAIN before # {}

\* The tokens a table holds under class, whatever the shape of the value.
ClassTokens(table) ==
    IF ~Has(table, K_class) THEN {}
    ELSE LET e == table[K_class]
         IN  IF e.type = "Token" THEN {e.val}
             ELSE IF e.type = "Set" THEN e.set
             ELSE IF e.type = "List" THEN Range(e.list)
             ELSE {}

HoldsClass(table) == Has(table, K_class) /\ table[K_class].type # "Bool"

\* C14: when both maps hold a class value, the class value of the merged
\* map holds the tokens of both, under either mode.
C14_MergeUnitesClass ==
    (last = "AttrHashMap::merge" /\ HoldsClass(before) /\ HoldsClass(other))
        => ClassTokens(res.table) = ClassTokens(before) \cup ClassTokens(other)

\* C15: class stores under class the Set of the incoming tokens and the
\* tokens held before (a Token, the members of a Set, the elements of a
\* List, none when absent) and leaves every other key alone; Token("btn")
\* and the incoming {"primary"} serialize as class="btn primary".
C15_ClassAccumulates ==
    (last = "Attributes::class" /\ res.ok)
        => /\ DOMAIN cur_attrs.table = DOMAIN before \cup {K_class}
           /\ cur_attrs.table[K_class] = Set(arg.classes \cup ClassTokens(before))
           /\ \A k \in DOMAIN before \ {K_class} : cur_attrs.table[k] = before[k]
           /\ (before = (K_class :> Token(BtnText)) /\ arg.classes = {PrimaryText})
                => \A seed \in HashSeeds : into_string(cur_attrs.table, seed) = ClassBtnPrimary

\* class({"primary"}) was called on a table holding Token("btn") under class.
C15_Witness ==
    /\ last = "Attributes::class"
    /\ res.ok
    /\ before = (K_class :> Token(BtnText))
    /\ arg.classes = {PrimaryText}
    /\ cur_attrs.table[K_class] = Set({BtnText, PrimaryText})

\* class was called twice and the second call found a Set of the first.
C15_AccumulatedReached ==
    /\ last = "Attributes::class"
    /\ Len(hist) = 2
    /\ hist[1].v = Set({PrimaryText})
    /\ hist[2].v = Set({PrimaryText, BtnText, LargeText})

\* C16: class called on a table holding a Bool under class panics: it
\* returns no collection and the Bool stays as it was.
C16_ClassOnFlagAborts ==
    (last = "Attributes::class" /\ Has(before, K_class) /\ before[K_class].type = "Bool")
        => ~res.ok /\ cur_attrs.table = before

\* class was called on a table holding Bool(true) under class.
C16_Witness ==
    /\ last = "Attributes::class"
    /\ Has(before, K_class)
    /\ before[K_class] = Bool(TRUE)
    /\ ~res.ok

\* t is s with v under k and every other key as in s.
Inserted(s, k, v, t) ==
    /\ DOMAIN t = DOMAIN s \cup {k}
    /\ t[k] = v
    /\ \A x \in DOMAIN s \ {k} : t[x] = s[x]

\* C17: add(k, v) gives a table holding v under k, whatever k held before,
\* and every other key as before; with_added gives such a table and leaves
\* the base map as it was.
C17_AddInserts ==
    /\ last = "AttrHashMap::add" => Inserted(before, arg.k, arg.v, cur_attrs.table)
    /\ last = "SharedAttrs::with_added"
         => Inserted(before, arg.k, arg.v, res.table) /\ cur_attrs.table = before

\* with_added of a key the base holds under a value of another shape, next
\* to another key.
C17_Witness ==
    /\ last = "SharedAttrs::with_added"
    /\ Has(before, arg.k)
    /\ before[arg.k].type # arg.v.type
    /\ DOMAIN before \ {arg.k} # {}
    /\ res.table # before

\* add of a key that held another value.
C17_AddOverwriteReached ==
    /\ last = "AttrHashMap::add"
    /\ Has(before, arg.k)
    /\ before[arg.k] # arg.v

\* ------------------------------------------------ typography rule properties

StraightQuotes == {"\"", "'"}

\* C18: punctuation_rule returns a text without straight quotes unchanged,
\* and applied to the text it returned it returns that text again.
C18_QuotesIdempotent ==
    /\ (last \in {"punctuation_rule", "punctuation_rule twice"}
        /\ Range(input) \cap StraightQuotes = {})
         => stored.text = input
    /\ last = "punctuation_rule twice" => stored.text = input

\* The rule ran twice on a text whose straight quotes the first run turned
\* into an opening double, an opening single and a closing quote.
C18_Witness ==
    /\ last = "punctuation_rule twice"
    /\ {LDQ, LSQ} \subseteq Range(input)
    /\ stored.text = input

\* The rule ran once on a text holding curly quotes only.
C18_CurlyOnlyReached ==
    /\ last = "punctuation_rule"
    /\ input = <<LSQ, "a", RDQ>>
    /\ stored.text = input

\* C19: apply of a rule set holding the Punctuation stage panics: it
\* returns no text.
C19_PunctuationStageAborts ==
    (last = "Default::apply" /\ "Punctuation" \in Range(stages))
        => ~stored.ok /\ stored.text = <<>>

\* apply reached the Punctuation stage after the All stage.
C19_Witness ==
    /\ last = "Default::apply"
    /\ stages = <<"All", "Punctuation">>
    /\ input # <<>>
    /\ ~stored.ok

\* ------------------------------------------------------- walk properties

\* A transition without the position it was made at.
Step(ev, node, text) == [ev |-> ev, node |-> node, text |-> text]

RECURSIVE DepthFirst(_)
\* The transitions of C20 for a node: its begin, those of its children from
\* left to right, its end.
DepthFirst(n) ==
    <<Step("visit_node_begin", n, <<>>)>>
    \o Concat([i \in 1..Len(n.childs) |->
                  LET c == n.childs[i]
                  IN  IF c.el = "Node" THEN DepthFirst(c.node)
                      ELSE IF c.el = "Text" THEN <<Step("visit_text", NoNode, c.text)>>
                      ELSE <<Step("visit_raw", NoNode, c.text)>>])
    \o <<Step("visit_node_end", n, <<>>)>>

Walked == last = "IRNode::accept::<Recorder>"

\* C20: accept makes the transitions depth first: begin of the node, the
\* transition of each child in sequence order (the whole walk of a nested
\* node), end of the node; each transition is made on the state the one
\* before it returned.
C20_DepthFirstOrder ==
    Walked
        => /\ [i \in 1..Len(visits) |-> Step(visits[i].ev, visits[i].node, visits[i].text)]
                = DepthFirst(cur_node)
           /\ \A i \in 1..Len(visits) : visits[i].at = i - 1
           /\ visits[1].ev = "visit_node_begin" /\ visits[1].node = cur_node
           /\ visits[Len(visits)].ev = "visit_node_end"
           /\ visits[Len(visits)].node = cur_node

\* A node with a nested node holding a text, and a raw block after it, was
\* walked.
C20_Witness ==
    /\ Walked
    /\ [i \in 1..Len(visits) |-> visits[i].ev]
         = <<"visit_node_begin", "visit_node_begin", "visit_text", "visit_node_end",
             "visit_raw", "visit_node_end">>
    /\ visits[2].node = cur_node.childs[1].node
    /\ visits[5].text = cur_node.childs[2].text

\* ------------------------------------------------------ quote-scan properties

\* The single quote at position i of text stands between two letters.
BetweenLetters(text, i) ==
    /\ i > 1
    /\ i < Len(text)
    /\ IsAlphabetic(text[i - 1])
    /\ IsAlphabetic(text[i + 1])

\* The straight double quotes among the first i characters of text.
DoublesUpTo(text, i) == Cardinality({j \in 1..i : text[j] = "\""})

\* The straight single quotes among the first i characters of text that do
\* not stand between two letters.
SinglesUpTo(text, i) ==
    Cardinality({j \in 1..i : text[j] = "'" /\ ~BetweenLetters(text, j)})

\* C24: punctuation_rule turns the k-th straight double quote of its input
\* into the opening curly double quote when k is odd and the closing one when
\* k is even, whatever single quotes stand between them, and a single quote
\* that is not an apostrophe opens or closes by the count of such single
\* quotes alone, whatever double quotes stand between them; every call
\* starts with both toggles closed.
C24_TogglesIndependent ==
    last \in {"punctuation_rule", "punctuation_rule twice"} =>
        /\ Len(stored.text) = Len(input)
        /\ \A i \in 1..Len(input) :
            /\ input[i] = "\"" =>
                   stored.text[i] = IF DoublesUpTo(input, i) % 2 = 1 THEN LDQ ELSE RDQ
            /\ (input[i] = "'" /\ ~BetweenLetters(input, i)) =>
                   stored.text[i] = IF SinglesUpTo(input, i) % 2 = 1 THEN LSQ ELSE RSQ

\* A double quote, a single quote and a second double quote: the second
\* double quote closes and the single quote between them opens.
C24_Witness ==
    /\ last = "punctuation_rule"
    /\ input = <<"\"", "'", "\"">>
    /\ stored.text = <<LDQ, LSQ, RDQ>>

\* C25: a straight single quote is an apostrophe exactly when it is neither
\* first nor last and both neighbours are letters; an apostrophe becomes the
\* closing curly single quote and leaves the toggle as it is, every other
\* single quote opens and closes in turn, every other character is kept;
\* "It's a "test"" gets a closing single quote and an opening and a closing
\* double quote.
C25_ApostropheRule ==
    last = "punctuation_rule" =>
        /\ Len(stored.text) = Len(input)
        /\ \A i \in 1..Len(input) :
               stored.text[i] =
                   IF input[i] = "'"
                   THEN IF BetweenLetters(input, i) THEN RSQ
                        ELSE IF SinglesUpTo(input, i) % 2 = 1 THEN LSQ ELSE RSQ
                   ELSE IF input[i] = "\""
                   THEN IF stored.text[i] = RDQ THEN RDQ ELSE LDQ
                   ELSE input[i]
        /\ input = ItsText =>
               stored.text = <<"I", "t", RSQ, "s", " ", "a", " ",
                               LDQ, "t", "e", "s", "t", RDQ>>

\* The scenario text went through the rule.
C25_Witness ==
    /\ last = "punctuation_rule"
    /\ input = ItsText
    /\ stored.text[3] = RSQ

\* A single quote after a letter and before a quote is no apostrophe: it
\* opens.
C25_EdgeReached ==
    /\ last = "punctuation_rule"
    /\ input = <<"a", "'", "\"">>
    /\ stored.text = <<"a", LSQ, LDQ>>

\* --------------------------------------------------- locale-table properties

\* The tables looked at for a locale, in order: the locale, its language when
\* it has a '-', _default and _common.
Chain(l) == <<l>> \o (IF Len(l) > 1 THEN <<lang_code(l)>> ELSE <<>>) \o <<DEFAULT, COMMON>>

\* What the first table of chain that maps c makes of it, c itself when none
\* does.
RECURSIVE FirstMapping(_, _, _)
FirstMapping(amb, chain, c) ==
    IF chain = <<>> THEN c
    ELSE IF Has(amb, Head(chain)) /\ Has(amb[Head(chain)], c) THEN amb[Head(chain)][c]
    ELSE FirstMapping(amb, Tail(chain), c)

\* The first table of chain that exists, the empty one when none does.
RECURSIVE FirstTable(_, _)
FirstTable(amb, chain) ==
    IF chain = <<>> THEN << >>
    ELSE IF Has(amb, Head(chain)) THEN amb[Head(chain)]
    ELSE FirstTable(amb, Tail(chain))

\* Every character a table or an input of the model names.
AllChars == TableChars \cup {FW2, BADCP, RSQ, PRIME, "a", "<", " ", "2", "\""}

\* What a mapping makes of a character.
Mapped(pairs, c) == IF Has(pairs, c) THEN pairs[c] ELSE c

\* C21, read character by character: every character is resolved by itself through the tables
\* in the order locale, language, _default, _common; the first table with a
\* mapping for the character supplies it, and a character no table maps is
\* kept.
C21_PerCharacterFallback ==
    /\ last = "get_ambiguous_pairs" =>
           \A c \in AllChars :
               Mapped(looked.pairs, c) = FirstMapping(RULES.ambiguous_map, Chain(cur_locale), c)
    /\ last = "replace_ambiguous_chars" =>
           stored.text = [i \in 1..Len(input) |->
                             FirstMapping(RULES.ambiguous_map, Chain(DEFAULT), input[i])]

\* C21, read table by table: one table serves the whole text, the first that exists in
\* the order locale, language, _default, _common; a character it maps is
\* replaced and every other character is kept, also when a later table of
\* the order maps it; with none of the tables nothing is replaced.
C21_FirstTableSupplies ==
    /\ last = "get_ambiguous_pairs" =>
           looked.pairs = FirstTable(RULES.ambiguous_map, Chain(cur_locale))
    /\ last = "replace_ambiguous_chars" =>
           stored.text = [i \in 1..Len(input) |->
                             Mapped(FirstTable(RULES.ambiguous_map, Chain(DEFAULT)), input[i])]

\* _default maps one character of the text and only _common maps another:
\* the first is replaced and the second kept.
C21_Witness ==
    /\ last = "replace_ambiguous_chars"
    /\ Has(RULES.ambiguous_map, DEFAULT)
    /\ Has(RULES.ambiguous_map, COMMON)
    /\ \E i, j \in 1..Len(input) :
        /\ Has(RULES.ambiguous_map[DEFAULT], input[i])
        /\ stored.text[i] = RULES.ambiguous_map[DEFAULT][input[i]]
        /\ ~Has(RULES.ambiguous_map[DEFAULT], input[j])
        /\ Has(RULES.ambiguous_map[COMMON], input[j])
        /\ stored.text[j] = input[j]

\* A lookup for zh-hant came back with the table of zh.
C21_LanguageReached ==
    /\ last = "get_ambiguous_pairs"
    /\ cur_locale = ZH_HANT
    /\ looked.pairs = (SAQ :> "a")

\* The invisible set of the first table that exists among the locale, its
\* language and _default, united with the _common set.
FallbackInvisible(inv, l) ==
    LET order == <<l>> \o (IF Len(l) > 1 THEN <<lang_code(l)>> ELSE <<>>) \o <<DEFAULT>>
        tables == {i \in 1..Len(order) : Has(inv, order[i])}
        resolved == IF tables = {} THEN {}
                    ELSE inv[order[CHOOSE i \in tables : \A j \in tables : i <= j]]
    IN  (IF Has(inv, COMMON) THEN inv[COMMON] ELSE {}) \cup resolved

C23_SubstitutableNeverInvisible ==
    /\ last = "get_invisible_chars" =>
           looked.invisible \cap DOMAIN get_ambiguous_pairs(RULES, cur_locale) = {}
    /\ last = "remove_invisible_chars" =>
           LET keys == DOMAIN get_ambiguous_pairs(RULES, DEFAULT)
           IN  SelectSeq(stored.text, LAMBDA c : c \in keys)
                   = SelectSeq(input, LAMBDA c : c \in keys)

\* What one stage other than Punctuation makes of a text.
Run(rule, t) ==
    IF rule = "All"
    THEN punctuation_rule(remove_invisible_chars(replace_ambiguous_chars(t)))
    ELSE IF rule = "AmbiguousChar" THEN replace_ambiguous_chars(t)
    ELSE remove_invisible_chars(t)

\* The stages of a list run from the left, each on the result of the one
\* before.
RECURSIVE Fold(_, _)
Fold(rs, t) == IF rs = <<>> THEN t ELSE Fold(Tail(rs), Run(Head(rs), t))

\* C26: apply runs the stages of the list from the left, each on the result
\* of the one before: All replaces, then removes, then sets the quotes,
\* AmbiguousChar only replaces, InvisibleCharacters only removes, and the
\* empty list gives the input back.
C26_ApplyIsFold ==
    last = "Default::apply" =>
        /\ stages = <<>> => (stored.ok /\ stored.text = input)
        /\ "Punctuation" \notin Range(stages) =>
               (stored.ok /\ stored.text = Fold(stages, input))

\* Three stages ran on a text that the first and the second each change.
C26_Witness ==
    /\ last = "Default::apply"
    /\ stages = <<"InvisibleCharacters", "AmbiguousChar", "All">>
    /\ Len(remove_invisible_chars(input)) < Len(input)
    /\ replace_ambiguous_chars(remove_invisible_chars(input)) # remove_invisible_chars(input)
    /\ "'" \in Range(input)
    /\ stored.ok

\* In the All stage a character with a replacement that the removal would
\* drop is replaced and kept.
C26_AllOrderReached ==
    /\ last = "Default::apply"
    /\ stages = <<"All">>
    /\ Len(remove_invisible_chars(input)) < Len(input)
    /\ Len(stored.text) = Len(input)

\* No table for any step of the lookup for a locale: not for the locale, not
\* for its language, not for _default and not for _common.
NoChainEntry(l) ==
    \A i \in 1..Len(Chain(l)) :
        /\ ~Has(RULES.ambiguous_map, Chain(l)[i])
        /\ ~Has(RULES.invisible_chars, Chain(l)[i])

\* C27: with no table for any step of the lookup the two lookups come back
\* empty, replacing and removing give the text back, and apply goes on to
\* the next stage: the quotes of an All stage are still set.
C27_MissingTablesNoOp ==
    /\ (last = "get_ambiguous_pairs" /\ NoChainEntry(cur_locale)) =>
           DOMAIN looked.pairs = {}
    /\ (last = "get_invisible_chars" /\ NoChainEntry(cur_locale)) =>
           looked.invisible = {}
    /\ (last \in {"replace_ambiguous_chars", "remove_invisible_chars"}
            /\ NoChainEntry(DEFAULT)) =>
           (stored.ok /\ stored.text = input)
    /\ (last = "Default::apply" /\ NoChainEntry(DEFAULT)
            /\ "Punctuation" \notin Range(stages)) =>
           /\ stored.ok
           /\ stored.text = IF "All" \in Range(stages) THEN punctuation_rule(input)
                             ELSE input

\* Tables with entries for another locale only: the three stages ran, the
\* first two changed nothing and the last set the quotes.
C27_Witness ==
    /\ last = "Default::apply"
    /\ DOMAIN RULES.invisible_chars # {}
    /\ DOMAIN RULES.ambiguous_map # {}
    /\ NoChainEntry(DEFAULT)
    /\ stages = <<"InvisibleCharacters", "AmbiguousChar", "All">>
    /\ \E i \in 1..Len(input) :
           /\ input[i] = "'"
           /\ Len(stored.text) = Len(input)
           /\ stored.text[i] \in {LSQ, RSQ}
    /\ \E k \in DOMAIN RULES.invisible_chars :
           Range(input) \cap RULES.invisible_chars[k] # {}

\* C30: a second run with tables that have the same _default and _common
\* entries, and any other entries, returns from apply what the first run
\* returned, for the same text and the same stage list.
C30_OnlyDefaultAndCommon ==
    last = "Default::apply again" =>
        /\ SameDefaultAndCommon(earlier.rules, RULES)
        /\ stored = earlier.stored

\* The second run had other tables, with a replacement under another locale
\* for a character of the text, and apply changed the text.
C30_Witness ==
    /\ last = "Default::apply again"
    /\ earlier.rules # RULES
    /\ \E k \in (DOMAIN RULES.ambiguous_map) \ {DEFAULT, COMMON} :
           Range(input) \cap DOMAIN RULES.ambiguous_map[k] # {}
    /\ stored.ok
    /\ stored.text # input

\* ------------------------------------------------ quotes and the escaping

StraightChars == {"\"", "'"}

CurlyDouble == {LDQ, RDQ}

CurlySingle == {LSQ, RSQ}

\* The quote characters of a text, in order.
QuoteSeq(t) == SelectSeq(t, LAMBDA c : c \in StraightChars \cup CurlyDouble \cup CurlySingle)

\* The stored text has no straight quote, and every '&' in it starts the
\* entity of '<', '>' or '&'.
OnlyMarkupEntities(text) ==
    \A i \in 1..Len(text) :
        /\ text[i] \notin StraightChars
        /\ text[i] = "&" =>
               \E e \in {NamedEntity("<"), NamedEntity(">"), NamedEntity("&")} :
                   /\ i + Len(e) - 1 <= Len(text)
                   /\ SubSeq(text, i, i + Len(e) - 1) = e

QuoteFreeTables ==
    LET pairs == get_ambiguous_pairs(RULES, DEFAULT)
        named == DOMAIN pairs \cup {pairs[c] : c \in DOMAIN pairs}
                     \cup get_invisible_chars(RULES, DEFAULT)
    IN  named \cap (StraightChars \cup CurlyDouble \cup CurlySingle) = {}

\* The quotes of the input stand in the stored text in the same order, each
\* straight one as a curly one of its kind.
QuotesAsCurly(in, out) ==
    /\ Len(QuoteSeq(out)) = Len(QuoteSeq(in))
    /\ \A k \in 1..Len(QuoteSeq(in)) :
           IF QuoteSeq(in)[k] = "\"" THEN QuoteSeq(out)[k] \in CurlyDouble
           ELSE IF QuoteSeq(in)[k] = "'" THEN QuoteSeq(out)[k] \in CurlySingle
           ELSE QuoteSeq(out)[k] = QuoteSeq(in)[k]

C28_QuoteTablesReached ==
    /\ last = "AttrValue::from_str"
    /\ stages = <<"All">>
    /\ ~QuoteFreeTables
    /\ input = <<"\"", "<", "'">>
    /\ stored.text = <<"&", "l", "t", ";", LSQ>>

\* ----------------------------------------------- threaded-renderer properties

IsPrefix(p, t) == Len(p) <= Len(t) /\ SubSeq(t, 1, Len(p)) = p

\* Every transition of the walk of node n, begun on renderer r, returns a
\* buffer that starts with the buffer of the renderer it was called on.
RECURSIVE AppendOnly(_, _, _), ChildsAppendOnly(_, _, _, _)
AppendOnly(n, r, seed) ==
    LET begun == visit_node_begin(r, n, seed)
        folded == fold_childs(n.childs, 1, begun, seed)
    IN  /\ IsPrefix(r.buffer, begun.buffer)
        /\ ChildsAppendOnly(n.childs, 1, begun, seed)
        /\ IsPrefix(folded.buffer, visit_node_end(folded, n).buffer)

ChildsAppendOnly(childs, i, r, seed) ==
    IF i > Len(childs) THEN TRUE
    ELSE LET child == childs[i]
         IN  /\ CASE child.el = "Text" -> IsPrefix(r.buffer, visit_text(r, child.text).buffer)
                   [] child.el = "Raw" -> IsPrefix(r.buffer, visit_raw(r, child.text).buffer)
                   [] child.el = "Node" -> AppendOnly(child.node, r, seed)
             /\ ChildsAppendOnly(childs, i + 1, fold_childs(<<child>>, 1, r, seed), seed)

\* The text of a node rendered alone, from a fresh renderer.
Alone(n, seed) == finalize(accept(n, HtmlRenderer_new, seed))

\* C29: every transition of a walk returns a buffer that has the receiver's
\* buffer as a prefix; the buffer of n.accept(r) is the buffer of r followed
\* by the text of n rendered from a fresh renderer; and the renderer that
\* several roots were rendered through holds their texts one after another.
C29_AppendOnlyCompositional ==
    /\ (cur_node # NoNode /\ cur_node.ok) =>
           \A seed \in HashSeeds :
               /\ AppendOnly(cur_node, cur_renderer, seed)
               /\ accept(cur_node, cur_renderer, seed).buffer
                      = cur_renderer.buffer \o Alone(cur_node, seed)
    /\ \A seed \in HashSeeds :
           cur_renderer.buffer
               = Concat([i \in 1..Len(threaded) |-> Alone(threaded[i], seed)])

\* Two different roots went through the one renderer, a text in the first
\* and a raw fragment in the second.
C29_Witness ==
    /\ last = "IRNode::accept(renderer)"
    /\ Len(threaded) = 2
    /\ \E i \in 1..Len(threaded[1].childs) : threaded[1].childs[i].el = "Text"
    /\ \E i \in 1..Len(threaded[2].childs) : threaded[2].childs[i].el = "Raw"
    /\ Len(cur_renderer.buffer) = Len(Alone(threaded[1], 0)) + Len(Alone(threaded[2], 0))

\* A node with a nested node stands ready for a renderer that already holds
\* the text of a root.
C29_NestedReached ==
    /\ cur_node # NoNode
    /\ cur_node.ok
    /\ \E i \in 1..Len(cur_node.childs) : cur_node.childs[i].el = "Node"
    /\ cur_renderer.buffer # <<>>

====
